---- MODULE Spec2Model ----
(***************************************************************************)
(* Sentenial-X Alethia: the trust-to-degradation pipeline.                 *)
(*                                                                         *)
(* Floats are modelled as exact rationals <<numerator, denominator>> with  *)
(* a positive denominator, in lowest terms.  Dictionaries are functions    *)
(* whose domain is a set of key strings.  Text is a sequence of one-       *)
(* character strings.  Every call is an action that takes the process from *)
(* pc = "idle" to pc = "called" and records the call (its inputs and what  *)
(* it returned) in `call`; Return goes back to "idle".                     *)
(***************************************************************************)
EXTENDS Integers, Sequences, FiniteSets, TLC

VARIABLES
    pc,         \* "idle": no call in progress; "called": `call` holds the last call;
                \* "batch": a batch is being worked through
    call,       \* the last call: [op, its inputs, its outputs]
    prev,       \* the call completed before `call` (kept by ReturnKeep)
    evaluator,  \* which trust evaluator class was constructed
    weights,    \* ConfidenceModel.weights / TrustScoring.weights of the instance
    fused,      \* SignalFusion.fused
    rng,        \* the state of the process-wide `random` generator
    environment, \* EnvironmentModel.state
    context,    \* ContextCollector.context
    state       \* a SemanticState, SemanticExecutionState or TrustVector instance

vars == <<pc, call, prev, evaluator, weights, fused, rng, environment, context,
          state>>

NoCall == [op |-> "none"]
\* an object that was not constructed
NoObject == [class |-> "none"]

-----------------------------------------------------------------------------
(* Rational arithmetic standing for Python float arithmetic.               *)

RECURSIVE GCD(_, _)
GCD(a, b) == IF b = 0 THEN a ELSE GCD(b, a % b)

Abs(x) == IF x < 0 THEN -x ELSE x

R(n, d) ==
    LET s == IF d < 0 THEN -1 ELSE 1
        g == GCD(Abs(n), Abs(d))
    IN  <<(s * n) \div g, (s * d) \div g>>

Zero == R(0, 1)
One == R(1, 1)

RAdd(a, b) == R(a[1] * b[2] + b[1] * a[2], a[2] * b[2])
RSub(a, b) == R(a[1] * b[2] - b[1] * a[2], a[2] * b[2])
RMul(a, b) == R(a[1] * b[1], a[2] * b[2])
RDiv(a, b) == R(a[1] * b[2], a[2] * b[1])
RLt(a, b) == a[1] * b[2] < b[1] * a[2]
RLe(a, b) == a[1] * b[2] <= b[1] * a[2]
RMax(a, b) == IF RLt(a, b) THEN b ELSE a
RMin(a, b) == IF RLt(b, a) THEN b ELSE a
\* int(x): truncation toward zero
RInt(a) == IF a[1] >= 0 THEN a[1] \div a[2] ELSE -((-a[1]) \div a[2])

InUnit(x) == RLe(Zero, x) /\ RLe(x, One)

\* sum(f[k] for k in D)
RECURSIVE RSum(_, _)
RSum(f, D) ==
    IF D = {} THEN Zero
    ELSE LET k == CHOOSE x \in D : TRUE
         IN  RAdd(f[k], RSum(f, D \ {k}))

\* every dict with keys among Keys and values among Vals
Dicts(Keys, Vals) == UNION {[D -> Vals] : D \in SUBSET Keys}

\* dict.get(k, default)
Get(d, k, default) == IF k \in DOMAIN d THEN d[k] ELSE default

EmptyDict == [k \in {} |-> Zero]

-----------------------------------------------------------------------------
(* Trust evaluation: SignalFusion, ConfidenceModel, TrustScoring.          *)

CtxKeys == {"auth_confidence", "network_risk"}
EnvKeys == {"network_risk"}
SigKeys == CtxKeys \cup EnvKeys
\* signal values, some of them outside [0,1]
SigVals == {R(-1, 2), R(0, 1), R(1, 2), R(1, 1), R(3, 2)}
\* weights: zero, fractional, above one
WeightVals == {R(0, 1), R(1, 2), R(2, 1)}

Signals(Keys) == Dicts(Keys, SigVals)
WeightMaps == Dicts(SigKeys, WeightVals)
\* the optional `weights` argument: None, or a dict
NoWeights == [none |-> TRUE]
SomeWeights(m) == [none |-> FALSE, map |-> m]
OptWeights == {NoWeights} \cup {SomeWeights(m) : m \in WeightMaps}

\* "risk" in key.lower() or "threat" in key.lower()
IsRiskKey(k) == k \in {"network_risk", "external_threat"}

\* max(0.0, min(1.0, value))
normalize(value) == RMax(Zero, RMin(One, value))

fuse_signals_unclamped(context_signals, environment_signals, w) ==
    LET nkeys == Cardinality(DOMAIN context_signals)
                   + Cardinality(DOMAIN environment_signals)
        mx == IF nkeys > 1 THEN nkeys ELSE 1
        wmap == IF w.none
                THEN [k \in DOMAIN context_signals \cup DOMAIN environment_signals
                        |-> R(1, mx)]
                ELSE w.map
        ctxc == [k \in DOMAIN context_signals |-> normalize(context_signals[k])]
        envc == [k \in DOMAIN environment_signals |->
                    IF IsRiskKey(k)
                    THEN RSub(One, normalize(environment_signals[k]))
                    ELSE normalize(environment_signals[k])]
        ctxt == [k \in DOMAIN ctxc |-> RMul(ctxc[k], Get(wmap, k, Zero))]
        envt == [k \in DOMAIN envc |-> RMul(envc[k], Get(wmap, k, Zero))]
        fused_score == RAdd(RSum(ctxt, DOMAIN ctxt), RSum(envt, DOMAIN envt))
        components == [k \in DOMAIN ctxc \cup DOMAIN envc |->
                          IF k \in DOMAIN envc THEN envc[k] ELSE ctxc[k]]
    IN  [trust_score |-> fused_score, components |-> components]

\* SignalFusion.fuse_signals: the FusedContext it stores and returns
fuse_signals(context_signals, environment_signals, w) ==
    LET f == fuse_signals_unclamped(context_signals, environment_signals, w)
    IN  [trust_score |-> RMax(Zero, RMin(One, f.trust_score)),
         components |-> f.components]

\* ConfidenceModel.compute_confidence: self.weights after the call
confidence_weights(ws, context_vector) ==
    IF DOMAIN context_vector = {} THEN ws
    ELSE IF DOMAIN ws = {} THEN [k \in DOMAIN context_vector |-> One]
    ELSE ws

confidence_raw(ws, context_vector) ==
    LET w == confidence_weights(ws, context_vector)
        D == DOMAIN context_vector
        total_weight == RSum([k \in D |-> Get(w, k, Zero)], D)
    IN  RDiv(RSum([k \in D |-> RMul(context_vector[k], Get(w, k, Zero))], D),
             total_weight)

\* ConfidenceModel.compute_confidence: the returned score
compute_confidence(ws, context_vector) ==
    LET w == confidence_weights(ws, context_vector)
        D == DOMAIN context_vector
        total_weight == RSum([k \in D |-> Get(w, k, Zero)], D)
    IN  IF D = {} THEN Zero
        ELSE IF total_weight = Zero THEN Zero
        ELSE RMax(Zero, RMin(One, confidence_raw(ws, context_vector)))

compute_score_unclamped(ws, context_vector) ==
    LET D == DOMAIN context_vector
        tw == IF DOMAIN ws # {} THEN RSum(ws, DOMAIN ws)
              ELSE R(Cardinality(D), 1)
        total_weight == IF tw = Zero THEN One ELSE tw
        score == RSum([k \in D |-> RMul(context_vector[k], Get(ws, k, One))], D)
    IN  IF D = {} THEN Zero ELSE RDiv(score, total_weight)

\* TrustScoring.compute_score
compute_score(ws, context_vector) ==
    LET D == DOMAIN context_vector
        tw == IF DOMAIN ws # {} THEN RSum(ws, DOMAIN ws)
              ELSE R(Cardinality(D), 1)
        total_weight == IF tw = Zero THEN One ELSE tw
        score == RSum([k \in D |-> RMul(context_vector[k], Get(ws, k, One))], D)
    IN  IF D = {} THEN Zero
        ELSE RMin(One, RMax(Zero, RDiv(score, total_weight)))

NoFused == [trust_score |-> Zero, components |-> EmptyDict]
NoRng == [tape |-> <<>>, pos |-> 0]

\* A trust evaluator right after construction.
InitTrust ==
    /\ pc = "idle"
    /\ call = NoCall
    /\ prev = NoCall
    /\ evaluator \in {"SignalFusion", "ConfidenceModel", "TrustScoring"}
    /\ weights \in IF evaluator = "SignalFusion" THEN {EmptyDict} ELSE WeightMaps
    /\ fused = NoFused
    /\ environment = NoObject
    /\ context = NoObject
    /\ state = NoObject
    /\ rng = NoRng

FuseSignals ==
    /\ pc = "idle"
    /\ evaluator = "SignalFusion"
    /\ \E c \in Signals(CtxKeys), e \in Signals(EnvKeys), w \in OptWeights :
          LET f == fuse_signals(c, e, w)
          IN  /\ fused' = f
              /\ call' = [op |-> "fuse_signals", context_signals |-> c,
                          environment_signals |-> e, weights |-> w,
                          score |-> f.trust_score]
    /\ pc' = "called"
    /\ UNCHANGED <<prev, evaluator, weights, rng,
                   environment, context, state>>

ComputeConfidence ==
    /\ pc = "idle"
    /\ evaluator = "ConfidenceModel"
    /\ \E cv \in Signals(SigKeys) :
          /\ weights' = confidence_weights(weights, cv)
          /\ call' = [op |-> "compute_confidence", context_vector |-> cv,
                      weights |-> weights,
                      score |-> compute_confidence(weights, cv)]
    /\ pc' = "called"
    /\ UNCHANGED <<prev, evaluator, fused, rng,
                   environment, context, state>>

ComputeScore ==
    /\ pc = "idle"
    /\ evaluator = "TrustScoring"
    /\ \E cv \in Signals(SigKeys) :
          call' = [op |-> "compute_score", context_vector |-> cv,
                   weights |-> weights,
                   score |-> compute_score(weights, cv)]
    /\ pc' = "called"
    /\ UNCHANGED <<prev, evaluator, weights, fused, rng,
                   environment, context, state>>

\* the caller takes the result; the instance keeps its state
Return ==
    /\ pc = "called"
    /\ pc' = "idle"
    /\ call' = NoCall
    /\ UNCHANGED <<prev, evaluator, weights, fused, rng,
                   environment, context, state>>

NextTrust == FuseSignals \/ ComputeConfidence \/ ComputeScore \/ Return

SpecTrust == InitTrust /\ [][NextTrust]_vars

TrustOps == {"fuse_signals", "compute_confidence", "compute_score"}

\* C1: every trust score returned by SignalFusion.fuse_signals,
\* ConfidenceModel.compute_confidence and TrustScoring.compute_score lies in
\* [0,1], whatever the signal values and the weights.
C1_TrustScoreInUnit ==
    call.op \in TrustOps => InUnit(call.score)

\* a score was computed from a signal outside [0,1] with weights that are given
\* for only some of the signals and do not sum to 1
C1_Witness ==
    /\ call.op = "compute_score"
    /\ \E k \in DOMAIN call.context_vector : ~InUnit(call.context_vector[k])
    /\ DOMAIN call.weights # {}
    /\ \E k \in DOMAIN call.context_vector : k \notin DOMAIN call.weights
    /\ RSum(call.weights, DOMAIN call.weights) # One
    /\ ~InUnit(compute_score_unclamped(call.weights, call.context_vector))

-----------------------------------------------------------------------------
(* Profile selection: AdaptiveProfiles and PolicyEngine.                   *)

\* AdaptiveProfiles.PROFILES
PROFILES ==
    << [name |-> "low_noise", noise_level |-> R(1, 10), synonym_drift |-> R(5, 100),
        polysemy_injection |-> R(5, 100), referential_ambiguity |-> R(1, 10)],
       [name |-> "medium_noise", noise_level |-> R(5, 10), synonym_drift |-> R(4, 10),
        polysemy_injection |-> R(35, 100), referential_ambiguity |-> R(45, 100)],
       [name |-> "high_noise", noise_level |-> R(9, 10), synonym_drift |-> R(85, 100),
        polysemy_injection |-> R(8, 10), referential_ambiguity |-> R(9, 10)] >>

\* AdaptiveProfiles._get_profile_by_name (the names asked for are in the table)
get_profile_by_name(name) ==
    PROFILES[CHOOSE i \in 1..Len(PROFILES) :
                /\ PROFILES[i].name = name
                /\ \A j \in 1..(i - 1) : PROFILES[j].name # name]

get_profile_strict(trust_score) ==
    LET t == normalize(trust_score)
    IN  IF RLt(R(8, 10), t) THEN get_profile_by_name("low_noise")
        ELSE IF RLt(R(4, 10), t) THEN get_profile_by_name("medium_noise")
        ELSE get_profile_by_name("high_noise")

get_profile_inverted(trust_score) ==
    LET t == normalize(trust_score)
    IN  IF RLe(R(8, 10), t) THEN get_profile_by_name("high_noise")
        ELSE IF RLe(R(4, 10), t) THEN get_profile_by_name("medium_noise")
        ELSE get_profile_by_name("low_noise")

\* AdaptiveProfiles.get_profile
get_profile(trust_score) ==
    LET t == normalize(trust_score)
    IN  IF RLe(R(8, 10), t) THEN get_profile_by_name("low_noise")
        ELSE IF RLe(R(4, 10), t) THEN get_profile_by_name("medium_noise")
        ELSE get_profile_by_name("high_noise")

\* policy_engine.DEFAULT_PROFILES
DEFAULT_PROFILES ==
    [low_trust |->
        [entropy_weight |-> R(9, 10), apply_token_swap |-> TRUE,
         apply_sentence_shuffle |-> TRUE, apply_random_injection |-> TRUE,
         apply_case_noise |-> TRUE],
     medium_trust |->
        [entropy_weight |-> R(5, 10), apply_token_swap |-> TRUE,
         apply_sentence_shuffle |-> FALSE, apply_random_injection |-> TRUE,
         apply_case_noise |-> FALSE],
     high_trust |->
        [entropy_weight |-> R(1, 10), apply_token_swap |-> FALSE,
         apply_sentence_shuffle |-> FALSE, apply_random_injection |-> FALSE,
         apply_case_noise |-> FALSE]]

\* PolicyEngine.select_profile
select_profile(trust_score) ==
    IF RLt(trust_score, R(4, 10)) THEN DEFAULT_PROFILES.low_trust
    ELSE IF RLt(trust_score, R(8, 10)) THEN DEFAULT_PROFILES.medium_trust
    ELSE DEFAULT_PROFILES.high_trust

\* trust scores tried: the twentieths from below 0 to above 1
ScoreGrid == 20
ScoreOver == 2
Scores == {R(i, ScoreGrid) : i \in (0 - ScoreOver)..(ScoreGrid + ScoreOver)}

InitProfile ==
    /\ pc = "idle"
    /\ call = NoCall
    /\ prev = NoCall
    /\ evaluator = "none"
    /\ weights = EmptyDict
    /\ fused = NoFused
    /\ environment = NoObject
    /\ context = NoObject
    /\ state = NoObject
    /\ rng = NoRng

\* the band a selector put the score in, named by the noise it stands for
GetProfile ==
    /\ pc = "idle"
    /\ \E t \in Scores :
          LET p == get_profile(t)
          IN  call' = [op |-> "get_profile", trust_score |-> t, profile |-> p,
                       band |-> p.name]
    /\ pc' = "called"
    /\ UNCHANGED <<prev, evaluator, weights, fused, rng,
                   environment, context, state>>

SelectProfile ==
    /\ pc = "idle"
    /\ \E t \in Scores :
          LET p == select_profile(t)
          IN  call' = [op |-> "select_profile", trust_score |-> t, profile |-> p,
                       band |-> IF p = DEFAULT_PROFILES.high_trust THEN "low_noise"
                                ELSE IF p = DEFAULT_PROFILES.medium_trust
                                     THEN "medium_noise"
                                ELSE "high_noise"]
    /\ pc' = "called"
    /\ UNCHANGED <<prev, evaluator, weights, fused, rng,
                   environment, context, state>>

\* the caller takes the result and remembers it
ReturnKeep ==
    /\ pc = "called"
    /\ pc' = "idle"
    /\ prev' = call
    /\ call' = NoCall
    /\ UNCHANGED <<evaluator, weights, fused, rng,
                   environment, context, state>>

NextProfile == GetProfile \/ SelectProfile \/ ReturnKeep

SpecProfile == InitProfile /\ [][NextProfile]_vars

ProfileOps == {"get_profile", "select_profile"}

\* the band the three fixed thresholds give a score in [0,1]
BandOf(t) ==
    IF RLe(R(8, 10), t) THEN "low_noise"
    ELSE IF RLe(R(4, 10), t) THEN "medium_noise"
    ELSE "high_noise"

C3_Monotonic ==
    (/\ prev.op = "get_profile"
     /\ call.op = "get_profile"
     /\ RLt(prev.trust_score, call.trust_score))
        => /\ RLe(call.profile.noise_level, prev.profile.noise_level)
           /\ RLe(call.profile.synonym_drift, prev.profile.synonym_drift)
           /\ RLe(call.profile.polysemy_injection, prev.profile.polysemy_injection)
           /\ RLe(call.profile.referential_ambiguity,
                  prev.profile.referential_ambiguity)

\* two scores in different bands were looked up one after the other
C3_Witness ==
    /\ prev.op = "get_profile"
    /\ call.op = "get_profile"
    /\ RLt(prev.trust_score, call.trust_score)
    /\ RLt(call.profile.noise_level, prev.profile.noise_level)

-----------------------------------------------------------------------------
(* Text: a string is a sequence of one-character strings.                  *)

Space == <<" ">>

\* str.split(): the whitespace-delimited tokens
Split(text) ==
    LET RECURSIVE SplitAcc(_, _, _)
        SplitAcc(t, cur, acc) ==
            IF t = <<>> THEN (IF cur = <<>> THEN acc ELSE Append(acc, cur))
            ELSE IF Head(t) = " "
                 THEN SplitAcc(Tail(t), <<>>,
                               IF cur = <<>> THEN acc ELSE Append(acc, cur))
                 ELSE SplitAcc(Tail(t), Append(cur, Head(t)), acc)
    IN  SplitAcc(text, <<>>, <<>>)

\* str.split(ch): the pieces between occurrences of ch, empty pieces kept
SplitOn(text, ch) ==
    LET RECURSIVE SplitOnAcc(_, _, _)
        SplitOnAcc(t, cur, acc) ==
            IF t = <<>> THEN Append(acc, cur)
            ELSE IF Head(t) = ch
                 THEN SplitOnAcc(Tail(t), <<>>, Append(acc, cur))
                 ELSE SplitOnAcc(Tail(t), Append(cur, Head(t)), acc)
    IN  SplitOnAcc(text, <<>>, <<>>)

\* sep.join(parts)
RECURSIVE Join(_, _)
Join(parts, sep) ==
    IF parts = <<>> THEN <<>>
    ELSE IF Len(parts) = 1 THEN parts[1]
    ELSE parts[1] \o sep \o Join(Tail(parts), sep)

\* str.strip()
Strip(s) ==
    LET RECURSIVE LStrip(_)
        LStrip(t) == IF t # <<>> /\ Head(t) = " " THEN LStrip(Tail(t)) ELSE t
        RECURSIVE RStrip(_)
        RStrip(t) ==
            IF t # <<>> /\ t[Len(t)] = " " THEN RStrip(SubSeq(t, 1, Len(t) - 1))
            ELSE t
    IN  RStrip(LStrip(s))

\* str.replace("_", " ")
ReplaceUnderscore(s) == [i \in 1..Len(s) |-> IF s[i] = "_" THEN " " ELSE s[i]]

UpperSeq == <<"A", "B", "C", "D", "E", "F", "G", "H", "I", "J", "K", "L", "M",
              "N", "O", "P", "Q", "R", "S", "T", "U", "V", "W", "X", "Y", "Z">>
LowerSeq == <<"a", "b", "c", "d", "e", "f", "g", "h", "i", "j", "k", "l", "m",
              "n", "o", "p", "q", "r", "s", "t", "u", "v", "w", "x", "y", "z">>

\* str.isupper() of one character
IsUpper(c) == \E i \in 1..Len(UpperSeq) : UpperSeq[i] = c

\* str.lower()
LowerChar(c) ==
    IF IsUpper(c) THEN LowerSeq[CHOOSE i \in 1..Len(UpperSeq) : UpperSeq[i] = c] ELSE c

Lower(s) == [i \in 1..Len(s) |-> LowerChar(s[i])]

\* set(seq)
Range(s) == {s[i] : i \in 1..Len(s)}

\* len(text.split())
WordCount(text) == Len(Split(text))

\* the words the payloads are made of: a word WordNet has lemmas for, a
\* capitalised name, a word that ends a sentence, a token with a period inside
WordCar == <<"c", "a", "r">>
WordBob == <<"B", "o", "b">>
WordRan == <<"r", "a", "n", ".">>
WordVer == <<"v", "1", ".", "2">>
Words == {WordCar, WordBob, WordRan, WordVer}

\* payloads of up to MaxTokens words
MaxTokens == 3
Texts == {Join(ws, Space) : ws \in UNION {[1..n -> Words] : n \in 0..MaxTokens}}

\* WordNet: [lemma.name() for syn in wordnet.synsets(word) for lemma in
\* syn.lemmas() if lemma.name() != word]
Lemmas(word) ==
    IF word = WordCar
    THEN << <<"a", "u", "t", "o">>, <<"c", "a", "b", "l", "e", "_", "c", "a", "r">> >>
    ELSE <<>>

\* LinguisticEntropy.ambiguous_terms (the default)
ambiguous_terms ==
    << <<"s", "e", "t">>, <<"l", "e", "a", "d">>, <<"c", "h", "a", "r", "g", "e">>,
       <<"d", "r", "a", "f", "t">>, <<"b", "a", "n", "k">> >>

\* LinguisticEntropy.placeholder (the default)
placeholder == <<"E", "N", "T", "I", "T", "Y">>

-----------------------------------------------------------------------------
(* The process-wide generator of the random module.  A seed fixes the      *)
(* whole stream of draws: the state is the stream (a cyclic tape of values *)
(* in [0,1)) and the position in it.                                       *)

Draws == {R(0, 1), R(1, 2)}
TapeLen == 2
Tapes == [1..TapeLen -> Draws]
\* the generator right after random.seed(s), s being identified with its stream
Seeded(tape) == [tape |-> tape, pos |-> 1]

\* random.random(): the value drawn, and the generator after the draw
Draw(g) == g.tape[g.pos]
Adv(g) == [g EXCEPT !.pos = (g.pos % Len(g.tape)) + 1]

\* the index random.choice / randbelow(n) picks with the value drawn
RandBelow(n, g) == RInt(RMul(Draw(g), R(n, 1)))

\* random.choice(seq)
Choice(seq, g) == seq[RandBelow(Len(seq), g) + 1]

\* swap two elements of a list
Swap(s, i, j) == [s EXCEPT ![i] = s[j], ![j] = s[i]]

\* random.shuffle(x): for i in reversed(range(1, len(x))): j = randbelow(i + 1)
Shuffle(x, g) ==
    LET RECURSIVE ShuffleFrom(_, _, _)
        ShuffleFrom(y, i, h) ==
            IF i < 2 THEN [list |-> y, rng |-> h]
            ELSE CHOOSE res \in {ShuffleFrom(z, i - 1, Adv(h)) :
                                    z \in {Swap(y, i, RandBelow(i, h) + 1)}} : TRUE
    IN  ShuffleFrom(x, Len(x), g)

\* random.sample(population, k): k draws from a shrinking pool
Sample(population, k, g) ==
    LET RECURSIVE SampleFrom(_, _, _, _, _)
        SampleFrom(pool, n, left, h, result) ==
            IF left = 0 THEN [list |-> result, rng |-> h]
            ELSE CHOOSE res \in
                    {SampleFrom([pool EXCEPT ![j] = pool[n]], n - 1, left - 1,
                                Adv(h), Append(result, pool[j])) :
                        j \in {RandBelow(n, h) + 1}} : TRUE
    IN  SampleFrom(population, Len(population), k, g, <<>>)

-----------------------------------------------------------------------------
(* The lexical transforms.  Each takes the text, its probability and the   *)
(* generator, and gives the new text and the generator after its draws.    *)

\* one turn of the loop of LinguisticEntropy.apply_synonym_drift
SynonymWord(word, p, g) ==
    LET hit == RLt(Draw(g), p)
        g1 == Adv(g)
        lemmas == IF hit THEN Lemmas(word) ELSE <<>>
        pick == lemmas # <<>>
    IN  [word |-> IF pick THEN ReplaceUnderscore(Choice(lemmas, g1)) ELSE word,
         rng |-> IF pick THEN Adv(g1) ELSE g1]

\* one word of the generator expression of
\* LinguisticEntropy.apply_polysemy_injection
PolysemyWord(word, p, g) ==
    LET hit == RLt(Draw(g), p)
        g1 == Adv(g)
    IN  [word |-> IF hit THEN Choice(ambiguous_terms, g1) ELSE word,
         rng |-> IF hit THEN Adv(g1) ELSE g1]

ReferentialWordAny(word, p, g) ==
    LET hit == RLt(Draw(g), p)
    IN  [word |-> IF hit THEN placeholder ELSE word, rng |-> Adv(g)]

\* one word of the generator expression of
\* LinguisticEntropy.apply_referential_ambiguity: random.random() is drawn only
\* for a word that starts with a capital
ReferentialWord(word, p, g) ==
    LET upper == IsUpper(word[1])
        hit == upper /\ RLt(Draw(g), p)
    IN  [word |-> IF hit THEN placeholder ELSE word,
         rng |-> IF upper THEN Adv(g) ELSE g]

\* ambiguity_ops.referential_substitution: placeholders (the default)
placeholders ==
    << <<"E", "N", "T", "I", "T", "Y">>, <<"O", "B", "J", "E", "C", "T">>,
       <<"T", "A", "R", "G", "E", "T">>, <<"S", "U", "B", "J", "E", "C", "T">> >>

\* one turn of the loop of ambiguity_ops.referential_substitution
SubstitutionWord(word, p, g) ==
    LET upper == IsUpper(word[1])
        hit == upper /\ RLt(Draw(g), p)
        g1 == IF upper THEN Adv(g) ELSE g
    IN  [word |-> IF hit THEN Choice(placeholders, g1) ELSE word,
         rng |-> IF hit THEN Adv(g1) ELSE g1]

\* semantic_noise.random_token_injection: candidates (the default)
injection_candidates ==
    << <<"E", "N", "T", "I", "T", "Y">>, <<"O", "B", "J", "E", "C", "T">>,
       <<"I", "T", "E", "M">>, <<"T", "A", "R", "G", "E", "T">>,
       <<"S", "U", "B", "J", "E", "C", "T">> >>

\* one word of the list comprehension of semantic_noise.random_token_injection
InjectionWord(word, p, g) ==
    LET hit == RLt(Draw(g), p)
        g1 == Adv(g)
    IN  [word |-> IF hit THEN Choice(injection_candidates, g1) ELSE word,
         rng |-> IF hit THEN Adv(g1) ELSE g1]

\* what a word-by-word transform does with one word
WordStep(name, word, p, g) ==
    CASE name = "synonym_drift" -> SynonymWord(word, p, g)
      [] name = "random_token_injection" -> InjectionWord(word, p, g)
      [] name = "polysemy_injection" -> PolysemyWord(word, p, g)
      [] name = "referential_ambiguity" -> ReferentialWord(word, p, g)
      [] name = "referential_substitution" -> SubstitutionWord(word, p, g)

\* for word in words: new_words.append(...), the draws taken word after word
RECURSIVE MapWords(_, _, _, _, _)
MapWords(name, words, p, g, new_words) ==
    IF words = <<>> THEN [list |-> new_words, rng |-> g]
    ELSE CHOOSE res \in {MapWords(name, Tail(words), p, st.rng,
                                  Append(new_words, st.word)) :
                            st \in {WordStep(name, Head(words), p, g)}} : TRUE

\* " ".join(new_words) of a word-by-word transform; probability <= 0 returns
\* the text as it is
WordTransform(name, data, p, g) ==
    IF RLe(p, Zero) THEN [text |-> data, rng |-> g]
    ELSE CHOOSE res \in {[text |-> Join(r.list, Space), rng |-> r.rng] :
                            r \in {MapWords(name, Split(data), p, g, <<>>)}} : TRUE

\* LinguisticEntropy.apply_synonym_drift
apply_synonym_drift(data, p, g) == WordTransform("synonym_drift", data, p, g)

\* LinguisticEntropy.apply_polysemy_injection
apply_polysemy_injection(data, p, g) == WordTransform("polysemy_injection", data, p, g)

\* LinguisticEntropy.apply_referential_ambiguity
apply_referential_ambiguity(data, p, g) ==
    WordTransform("referential_ambiguity", data, p, g)

\* ambiguity_ops.referential_substitution
referential_substitution(text, p, g) ==
    WordTransform("referential_substitution", text, p, g)

\* a pass over the adjacent pairs from the right end to the left end
RECURSIVE SwapPassRev(_, _, _, _)
SwapPassRev(tokens, i, p, g) ==
    IF i >= Len(tokens) THEN [list |-> tokens, rng |-> g]
    ELSE CHOOSE res \in {SwapPassRev(t, i + 1, p, Adv(g)) :
                            t \in {IF RLt(Draw(g), p)
                                   THEN Swap(tokens, Len(tokens) - i,
                                             Len(tokens) - i + 1)
                                   ELSE tokens}} : TRUE

\* the loop of semantic_noise.token_swap: for i in range(len(tokens) - 1)
RECURSIVE SwapPass(_, _, _, _)
SwapPass(tokens, i, p, g) ==
    IF i >= Len(tokens) THEN [list |-> tokens, rng |-> g]
    ELSE CHOOSE res \in {SwapPass(t, i + 1, p, Adv(g)) :
                            t \in {IF RLt(Draw(g), p) THEN Swap(tokens, i, i + 1)
                                   ELSE tokens}} : TRUE

\* semantic_noise.token_swap (ambiguity_ops.token_scrambling has the same body)
token_swap(text, p, g) ==
    IF RLe(p, Zero) THEN [text |-> text, rng |-> g]
    ELSE CHOOSE res \in {[text |-> Join(r.list, Space), rng |-> r.rng] :
                            r \in {SwapPass(Split(text), 1, p, g)}} : TRUE

\* [s.strip() for s in text.split('.') if s.strip()]
RECURSIVE StripNonEmpty(_)
StripNonEmpty(parts) ==
    IF parts = <<>> THEN <<>>
    ELSE (IF Strip(Head(parts)) = <<>> THEN <<>> ELSE <<Strip(Head(parts))>>)
            \o StripNonEmpty(Tail(parts))

Sentences(text) == StripNonEmpty(SplitOn(text, "."))

\* semantic_noise.sentence_split_shuffle (ambiguity_ops.sentence_shuffling has
\* the same body)
sentence_split_shuffle(text, p, g) ==
    IF RLe(p, Zero) THEN [text |-> text, rng |-> g]
    ELSE CHOOSE res \in
            {[text |-> Join(r.list, <<".", " ">>)
                          \o (IF r.list # <<>> THEN <<".">> ELSE <<>>),
              rng |-> r.rng] :
                r \in {IF RLt(Draw(g), p) THEN Shuffle(Sentences(text), Adv(g))
                       ELSE [list |-> Sentences(text), rng |-> Adv(g)]}} : TRUE

\* semantic_noise.random_token_injection
random_token_injection(text, p, g) == WordTransform("random_token_injection", text, p, g)

\* str.upper() of one character
UpperChar(c) ==
    IF \E i \in 1..Len(LowerSeq) : LowerSeq[i] = c
    THEN UpperSeq[CHOOSE i \in 1..Len(LowerSeq) : LowerSeq[i] = c]
    ELSE c

\* semantic_noise.random_case_noise: one draw for every character
random_case_noise(text, p, g) ==
    LET RECURSIVE Noise(_, _, _)
        Noise(left, h, done) ==
            IF left = <<>> THEN [text |-> done, rng |-> h]
            ELSE CHOOSE res \in
                    {Noise(Tail(left), Adv(h), Append(done, c)) :
                        c \in {IF RLt(Draw(h), p) THEN UpperChar(Head(left))
                               ELSE LowerChar(Head(left))}} : TRUE
    IN  IF RLe(p, Zero) THEN [text |-> text, rng |-> g] ELSE Noise(text, g, <<>>)

\* one transform, by the name it has in the code
Transform(name, text, p, g) ==
    CASE name = "synonym_drift" -> apply_synonym_drift(text, p, g)
      [] name = "random_token_injection" -> random_token_injection(text, p, g)
      [] name = "random_case_noise" -> random_case_noise(text, p, g)
      [] name = "polysemy_injection" -> apply_polysemy_injection(text, p, g)
      [] name = "referential_ambiguity" -> apply_referential_ambiguity(text, p, g)
      [] name = "token_swap" -> token_swap(text, p, g)
      [] name = "sentence_split_shuffle" -> sentence_split_shuffle(text, p, g)
      [] name = "sentence_shuffling" -> sentence_split_shuffle(text, p, g)
      [] name = "token_scrambling" -> token_swap(text, p, g)
      [] name = "referential_substitution" -> referential_substitution(text, p, g)

\* data = f1(data); data = f2(data); ...: the transforms named, in order, each
\* on the text the one before returned; `steps` records what was applied
RunSteps(names, prob, text, g) ==
    LET RECURSIVE RunStepsFrom(_, _, _, _)
        RunStepsFrom(left, data, h, steps) ==
            IF left = <<>> THEN [text |-> data, rng |-> h, steps |-> steps]
            ELSE CHOOSE res \in
                    {RunStepsFrom(Tail(left), r.text, r.rng,
                                  Append(steps, [name |-> Head(left), input |-> data,
                                                 output |-> r.text])) :
                        r \in {Transform(Head(left), data, prob[Head(left)], h)}} : TRUE
    IN  RunStepsFrom(names, text, g, <<>>)

\* the order of LinguisticEntropy.apply_all
ApplyAllOrder == <<"synonym_drift", "polysemy_injection", "referential_ambiguity">>

\* LinguisticEntropy.apply_all, of an instance made with the three probabilities
apply_all(data, synonym_prob, polysemy_prob, referential_prob, g) ==
    RunSteps(ApplyAllOrder,
             [n \in Range(ApplyAllOrder) |->
                 IF n = "synonym_drift" THEN synonym_prob
                 ELSE IF n = "polysemy_injection" THEN polysemy_prob
                 ELSE referential_prob],
             data, g)

\* EntropyEngine.transform
entropy_transform(data, trust_score, g) ==
    LET profile == get_profile(trust_score)
    IN  apply_all(data, profile.synonym_drift, profile.polysemy_injection,
                  profile.referential_ambiguity, g)

\* EntropyOps.__init__: default_profile
default_profile ==
    [synonym_drift |-> R(5, 10), polysemy_injection |-> R(3, 10),
     referential_ambiguity |-> R(2, 10), sentence_shuffling |-> R(2, 10),
     token_scrambling |-> R(1, 10), referential_substitution |-> R(15, 100)]

\* the order of EntropyOps.transform
EntropyOpsOrder ==
    <<"synonym_drift", "polysemy_injection", "referential_ambiguity",
      "sentence_shuffling", "token_scrambling", "referential_substitution">>

\* EntropyOps.transform
entropy_ops_transform(data, profile, g) == RunSteps(EntropyOpsOrder, profile, data, g)

\* DegradationEngine.degrade: methods
Methods ==
    <<"synonym_drift", "polysemy_injection", "referential_ambiguity",
      "token_swap", "sentence_split_shuffle">>

\* min(3, len(methods))
MethodsPerPass == 3

\* intensity = (1 - trust_score)
degrade_intensity(trust_score) == RSub(One, trust_score)

\* iterations = max(1, int(self.max_iterations * intensity))
degrade_iterations(max_iterations, trust_score) ==
    LET n == RInt(RMul(R(max_iterations, 1), degrade_intensity(trust_score)))
    IN  IF n > 1 THEN n ELSE 1

\* one pass of the loop of DegradationEngine.degrade: random.sample picks the
\* methods and they are applied in the order sampled
DegradePass(text, intensity, g) ==
    CHOOSE res \in
        {[names |-> s.list,
          run |-> RunSteps(s.list, [m \in Range(Methods) |-> intensity], text, s.rng)] :
            s \in {Sample(Methods, MethodsPerPass, g)}} : TRUE

\* for _ in range(iterations)
RECURSIVE DegradePasses(_, _, _, _, _, _)
DegradePasses(n, text, intensity, g, steps, passes) ==
    IF n = 0 THEN [text |-> text, rng |-> g, steps |-> steps, passes |-> passes]
    ELSE CHOOSE res \in
            {DegradePasses(n - 1, ps.run.text, intensity, ps.run.rng,
                           steps \o ps.run.steps, Append(passes, ps.names)) :
                ps \in {DegradePass(text, intensity, g)}} : TRUE

\* DegradationEngine.degrade
degrade(payload, trust_score, max_iterations, g) ==
    DegradePasses(degrade_iterations(max_iterations, trust_score), payload,
                  degrade_intensity(trust_score), g, <<>>, <<>>)

\* DegradationEngine.degrade_with_context
degrade_with_context(payload, context_vector, max_iterations, g) ==
    LET trust_score == Get(context_vector, "auth_confidence", Zero)
        agent_trust == Get(context_vector, "agent_trust", Zero)
        combined_trust == RMax(Zero, RMin(One, RMul(R(1, 2),
                                                    RAdd(trust_score, agent_trust))))
    IN  degrade(payload, combined_trust, max_iterations, g)

-----------------------------------------------------------------------------
(* The degraders and their callers, in a process whose generator was       *)
(* seeded at start-up.                                                     *)

\* transform probabilities tried: never, sometimes, always
Probs == {R(0, 1), R(1, 4), R(1, 1)}
\* trust scores tried, one in each band
TrustLevels == {R(0, 1), R(1, 2), R(1, 1)}
\* DegradationEngine.__init__: max_iterations (the default)
DefaultMaxIterations == 3

InitDegrade ==
    /\ pc = "idle"
    /\ call = NoCall
    /\ prev = NoCall
    /\ evaluator = "none"
    /\ weights = EmptyDict
    /\ fused = NoFused
    /\ environment = NoObject
    /\ context = NoObject
    /\ state = NoObject
    /\ rng \in {Seeded(t) : t \in Tapes}

\* random.seed(s)
Seed ==
    /\ pc = "idle"
    /\ \E t \in Tapes : rng' = Seeded(t)
    /\ UNCHANGED <<pc, call, prev, evaluator, weights, fused,
                   environment, context, state>>

\* a call of one transform on its own
TransformCall ==
    /\ pc = "idle"
    /\ \E name \in Range(Methods), text \in Texts, p \in Probs :
          \E r \in {Transform(name, text, p, rng)} :
              /\ call' = [op |-> name, payload |-> text, params |-> <<p>>,
                          seed |-> rng.tape, rng_in |-> rng, output |-> r.text,
                          steps |-> <<[name |-> name, input |-> text,
                                       output |-> r.text]>>]
              /\ rng' = r.rng
    /\ pc' = "called"
    /\ UNCHANGED <<prev, evaluator, weights, fused,
                   environment, context, state>>

\* EntropyEngine.transform
EntropyTransform ==
    /\ pc = "idle"
    /\ \E text \in Texts, t \in TrustLevels :
          \E r \in {entropy_transform(text, t, rng)} :
              /\ call' = [op |-> "entropy_transform", payload |-> text,
                          params |-> <<t>>, seed |-> rng.tape, rng_in |-> rng,
                          output |-> r.text, steps |-> r.steps]
              /\ rng' = r.rng
    /\ pc' = "called"
    /\ UNCHANGED <<prev, evaluator, weights, fused,
                   environment, context, state>>

\* EntropyOps.transform, of an instance made with the default profile
EntropyOpsTransform ==
    /\ pc = "idle"
    /\ \E text \in Texts :
          \E r \in {entropy_ops_transform(text, default_profile, rng)} :
              /\ call' = [op |-> "entropy_ops_transform", payload |-> text,
                          params |-> <<default_profile>>, seed |-> rng.tape,
                          rng_in |-> rng, output |-> r.text, steps |-> r.steps]
              /\ rng' = r.rng
    /\ pc' = "called"
    /\ UNCHANGED <<prev, evaluator, weights, fused,
                   environment, context, state>>

\* DegradationEngine.degrade
Degrade ==
    /\ pc = "idle"
    /\ \E text \in Texts, t \in TrustLevels :
          \E r \in {degrade(text, t, DefaultMaxIterations, rng)} :
              /\ call' = [op |-> "degrade", payload |-> text, params |-> <<t>>,
                          seed |-> rng.tape, rng_in |-> rng, output |-> r.text,
                          steps |-> r.steps, passes |-> r.passes]
              /\ rng' = r.rng
    /\ pc' = "called"
    /\ UNCHANGED <<prev, evaluator, weights, fused,
                   environment, context, state>>

NextDegrade ==
    \/ Seed
    \/ TransformCall
    \/ EntropyTransform
    \/ EntropyOpsTransform
    \/ Degrade
    \/ Return

SpecDegrade == InitDegrade /\ [][NextDegrade]_vars

DegradeOps ==
    {"synonym_drift", "polysemy_injection", "referential_ambiguity", "token_swap",
     "sentence_split_shuffle", "entropy_transform", "entropy_ops_transform", "degrade"}

\* the names of the transforms applied, in order
StepNames(steps) == [i \in 1..Len(steps) |-> steps[i].name]

\* each step worked on what the step before returned
Chained(c) ==
    /\ \A i \in 1..Len(c.steps) :
          c.steps[i].input = (IF i = 1 THEN c.payload ELSE c.steps[i - 1].output)
    /\ c.output = (IF c.steps = <<>> THEN c.payload ELSE c.steps[Len(c.steps)].output)

\* C7: no transform, and no composition of transforms, changes the number of
\* whitespace-delimited tokens of the payload.
C7_TokenCountKept ==
    call.op \in DegradeOps
        => /\ WordCount(call.output) = WordCount(call.payload)
           /\ \A i \in 1..Len(call.steps) :
                 WordCount(call.steps[i].output) = WordCount(call.steps[i].input)

\* C8 as stated: every degrader applies exactly the five transforms synonym
\* drift, polysemy injection, referential ambiguity, token swap, sentence
\* shuffle, in that order, each on the output of the one before.
C8_FixedOrderOfFive ==
    call.op \in {"entropy_transform", "entropy_ops_transform", "degrade"}
        => /\ StepNames(call.steps) = Methods
           /\ Chained(call)

-----------------------------------------------------------------------------
(* Exposure-based decay: SemanticDecay, which hands its decay factor to a  *)
(* DegradationEngine made with max_iterations = max_passes.                *)

\* SemanticDecay.__init__: max_passes (the default)
max_passes == 5

\* math.exp(-self.base_decay * exposure_count) for base_decay = 0.1 (the
\* default) and exposure_count = 0, 1, ..., 10, to three decimals
ExpNegBaseDecay ==
    <<R(1000, 1000), R(905, 1000), R(819, 1000), R(741, 1000), R(670, 1000),
      R(607, 1000), R(549, 1000), R(497, 1000), R(449, 1000), R(407, 1000),
      R(368, 1000)>>

\* exposure counts tried: 0..MaxExposure
MaxExposure == 4

\* SemanticDecay._compute_decay_factor
compute_decay_factor(trust_score, exposure_count) ==
    RMin(One, RMul(RSub(One, trust_score),
                   RSub(One, ExpNegBaseDecay[exposure_count + 1])))

\* effective_trust = max(0.0, min(1.0, 0.5 * (trust_score + agent_trust)))
effective_trust(context_vector) ==
    RMax(Zero, RMin(One, RMul(R(1, 2),
                              RAdd(Get(context_vector, "auth_confidence", Zero),
                                   Get(context_vector, "agent_trust", Zero)))))

\* SemanticDecay.decay_payload: the decay factor goes to degrade as its
\* trust_score argument
decay_payload(payload, context_vector, exposure_count, g) ==
    LET decay_factor == compute_decay_factor(effective_trust(context_vector),
                                             exposure_count)
    IN  [decay_factor |-> decay_factor,
         intensity |-> degrade_intensity(decay_factor),
         result |-> degrade(payload, decay_factor, max_passes, g)]

\* context vectors: each of the two signals absent, 0.0 or 1.0
DecayContexts == Dicts({"auth_confidence", "agent_trust"}, {Zero, One})

\* the payloads that are decayed
DecayTexts == {Join(<<WordCar, WordBob>>, Space), Join(<<WordRan>>, Space)}

InitDecay ==
    /\ pc = "idle"
    /\ call = NoCall
    /\ prev = NoCall
    /\ evaluator = "none"
    /\ weights = EmptyDict
    /\ fused = NoFused
    /\ environment = NoObject
    /\ context = NoObject
    /\ state = NoObject
    /\ rng \in {Seeded(t) : t \in Tapes}

\* SemanticDecay.decay_payload; a caller that decayed a payload before decays
\* the same payload again
DecayPayload ==
    /\ pc = "idle"
    /\ \E text \in DecayTexts, ctx \in DecayContexts, n \in 0..MaxExposure :
          /\ prev # NoCall => text = prev.payload
          /\ \E d \in {decay_payload(text, ctx, n, rng)} :
                /\ call' = [op |-> "decay_payload", payload |-> text,
                            context_vector |-> ctx, exposure_count |-> n,
                            effective_trust |-> effective_trust(ctx),
                            decay_factor |-> d.decay_factor,
                            intensity |-> d.intensity,
                            iterations |-> Len(d.result.passes),
                            output |-> d.result.text]
                /\ rng' = d.result.rng
    /\ pc' = "called"
    /\ UNCHANGED <<prev, evaluator, weights, fused,
                   environment, context, state>>

NextDecay == DecayPayload \/ ReturnKeep

SpecDecay == InitDecay /\ [][NextDecay]_vars

\* C4: of two decays of the same payload, the one with the lower (or equal)
\* effective trust and the higher (or equal) exposure count hands degrade an
\* intensity (transform probability, number of passes) that is not lower.
C4_DecayMonotonic ==
    (/\ call.op = "decay_payload"
     /\ prev.op = "decay_payload"
     /\ call.payload = prev.payload
     /\ RLe(call.effective_trust, prev.effective_trust)
     /\ call.exposure_count >= prev.exposure_count)
        => /\ RLe(prev.intensity, call.intensity)
           /\ prev.iterations <= call.iterations

-----------------------------------------------------------------------------
(* Repeated degradation in one process: the transforms draw from the       *)
(* generator of the random module, which no call takes as a parameter.     *)

\* EntropyEngine.transform or DegradationEngine.degrade; a caller that kept a
\* result repeats the call with the same payload and trust score
RepeatedDegrade ==
    /\ pc = "idle"
    /\ \E op \in {"entropy_transform", "degrade"}, text \in Texts, t \in TrustLevels :
          /\ prev # NoCall =>
                prev.op = op /\ prev.payload = text /\ prev.params = <<t>>
          /\ \E r \in {IF op = "degrade"
                       THEN degrade(text, t, DefaultMaxIterations, rng)
                       ELSE entropy_transform(text, t, rng)} :
                /\ call' = [op |-> op, payload |-> text, params |-> <<t>>,
                            seed |-> rng.tape, rng_in |-> rng, output |-> r.text,
                            steps |-> r.steps]
                /\ rng' = r.rng
    /\ pc' = "called"
    /\ UNCHANGED <<prev, evaluator, weights, fused,
                   environment, context, state>>

NextRepro == Seed \/ RepeatedDegrade \/ ReturnKeep

SpecRepro == InitDegrade /\ [][NextRepro]_vars

\* C5: two degrade calls with the same seed, payload and profile (trust score)
\* return the identical output string, also when they are made one after the
\* other in the same process.
C5_Reproducible ==
    (/\ call.op \in {"entropy_transform", "degrade"}
     /\ prev.op = call.op
     /\ prev.payload = call.payload
     /\ prev.params = call.params
     /\ prev.seed = call.seed)
        => call.output = prev.output

-----------------------------------------------------------------------------
(* The usability guard: UsabilityGuard.                                    *)

\* UsabilityGuard.__init__: min_usability_threshold (the default, 0.85)
min_usability_threshold == R(85, 100)

\* the trust score from which the guard acts (trust_score >= 0.8)
GuardTrustThreshold == R(8, 10)

\* UsabilityGuard.assess_usability
assess_usability(payload, reference_payload) ==
    IF payload = <<>> \/ reference_payload = <<>> THEN Zero
    ELSE LET ref_tokens == Range(Split(Lower(reference_payload)))
             payload_tokens == Range(Split(Lower(payload)))
             overlap == ref_tokens \cap payload_tokens
             m == IF Cardinality(ref_tokens) > 1 THEN Cardinality(ref_tokens) ELSE 1
         IN  RMin(RMax(R(Cardinality(overlap), m), Zero), One)

\* seq[:n] and seq[n:]
Prefix(seq, n) == SubSeq(seq, 1, IF n < Len(seq) THEN n ELSE Len(seq))
Suffix(seq, n) == SubSeq(seq, n + 1, Len(seq))

restore_semantics_swapped(degraded_payload, reference_payload, fraction) ==
    LET degraded_tokens == Split(degraded_payload)
        reference_tokens == Split(reference_payload)
        restore_count == RInt(RMul(R(Len(reference_tokens), 1), fraction))
    IN  Join(Prefix(degraded_tokens, restore_count)
                \o Suffix(reference_tokens, restore_count), Space)

\* UsabilityGuard._restore_semantics
restore_semantics(degraded_payload, reference_payload, fraction) ==
    LET degraded_tokens == Split(degraded_payload)
        reference_tokens == Split(reference_payload)
        restore_count == RInt(RMul(R(Len(reference_tokens), 1), fraction))
    IN  Join(Prefix(reference_tokens, restore_count)
                \o Suffix(degraded_tokens, restore_count), Space)

enforce_usability_unguarded(payload, reference_payload, trust_score) ==
    LET usability == assess_usability(payload, reference_payload)
    IN  IF RLt(usability, min_usability_threshold)
        THEN restore_semantics(payload, reference_payload,
                               RSub(min_usability_threshold, usability))
        ELSE payload

\* UsabilityGuard.enforce_usability
enforce_usability(payload, reference_payload, trust_score) ==
    IF RLe(GuardTrustThreshold, trust_score)
    THEN LET usability == assess_usability(payload, reference_payload)
         IN  IF RLt(usability, min_usability_threshold)
             THEN restore_semantics(payload, reference_payload,
                                    RSub(min_usability_threshold, usability))
             ELSE payload
    ELSE payload

\* the payloads the guard is given: up to MaxTokens words, one of them in two
\* spellings that differ in case only
GuardTexts ==
    {Join(ws, Space) :
        ws \in UNION {[1..n -> {WordCar, WordBob, Lower(WordBob)}] : n \in 0..MaxTokens}}

\* trust scores tried: below, just below, at and above the threshold
GuardTrust == {R(0, 1), R(79, 100), R(8, 10), R(1, 1)}

InitGuard ==
    /\ pc = "idle"
    /\ call = NoCall
    /\ prev = NoCall
    /\ evaluator = "none"
    /\ weights = EmptyDict
    /\ fused = NoFused
    /\ environment = NoObject
    /\ context = NoObject
    /\ state = NoObject
    /\ rng = NoRng

\* UsabilityGuard.enforce_usability
EnforceUsability ==
    /\ pc = "idle"
    /\ \E payload \in GuardTexts, reference \in GuardTexts, t \in GuardTrust :
          call' = [op |-> "enforce_usability", payload |-> payload,
                   reference_payload |-> reference, trust_score |-> t,
                   usability |-> assess_usability(payload, reference),
                   output |-> enforce_usability(payload, reference, t)]
    /\ pc' = "called"
    /\ UNCHANGED <<prev, evaluator, weights, fused, rng,
                   environment, context, state>>

NextGuard == EnforceUsability \/ Return

SpecGuard == InitGuard /\ [][NextGuard]_vars

\* C9: for every trust score below 0.8, whatever the degraded payload, the
\* reference payload and their usability score, enforce_usability returns the
\* degraded payload unchanged.
C9_NoOpBelowThreshold ==
    (call.op = "enforce_usability" /\ RLt(call.trust_score, R(8, 10)))
        => call.output = call.payload

\* C9 witness: a call below the threshold whose payload is under the usability
\* minimum and would have been changed by a restoration
C9_Witness ==
    /\ call.op = "enforce_usability"
    /\ RLt(call.trust_score, R(8, 10))
    /\ RLt(call.usability, min_usability_threshold)
    /\ call.output = call.payload
    /\ restore_semantics(call.payload, call.reference_payload,
                         RSub(min_usability_threshold, call.usability)) # call.payload

\* a restoring call: trust at or over 0.8 and usability under the minimum
Restoring ==
    /\ call.op = "enforce_usability"
    /\ RLe(R(8, 10), call.trust_score)
    /\ RLt(call.usability, min_usability_threshold)

\* k = floor(len(reference_tokens) * (min_usability - usability))
RestoreK ==
    RInt(RMul(R(WordCount(call.reference_payload), 1),
              RSub(R(85, 100), call.usability)))

\* the first k reference tokens, then the degraded tokens after the k-th
FirstKReplaced ==
    \E k \in {RestoreK} :
        LET out == Split(call.output)
            ref == Split(call.reference_payload)
            deg == Split(call.payload)
        IN  /\ \A i \in 1..Len(out) :
                  IF i <= k THEN i <= Len(ref) /\ out[i] = ref[i]
                  ELSE i <= Len(deg) /\ out[i] = deg[i]
            /\ Len(out) >= k
            /\ Len(out) >= Len(deg)

\* C10 as stated: a restoring call replaces the first k tokens of the degraded
\* payload by the first k reference tokens, leaves the later tokens as they
\* are, and returns as many tokens as the degraded payload has, also when the
\* degraded payload has fewer than k tokens or is empty.
C10_SameTokenCount ==
    Restoring => /\ FirstKReplaced
                 /\ WordCount(call.output) = WordCount(call.payload)

\* C10, amended: a restoring call returns the first k reference tokens followed
\* by the degraded tokens after the k-th; the result has as many tokens as the
\* degraded payload when that has at least k tokens, and k tokens when it has
\* fewer or is empty.
C10_RestoredPrefix ==
    Restoring => /\ FirstKReplaced
                 /\ WordCount(call.output) =
                       (IF WordCount(call.payload) >= RestoreK
                        THEN WordCount(call.payload) ELSE RestoreK)

\* C10 witness: a restoring call with k >= 1 on a degraded payload that has
\* fewer than k tokens
C10_Witness ==
    /\ Restoring
    /\ RestoreK >= 1
    /\ WordCount(call.payload) < RestoreK
    /\ WordCount(call.output) = RestoreK

-----------------------------------------------------------------------------
(* The whole pipeline and its batch: SemanticEngine.process_payload and    *)
(* batch_process, with the SemanticRouter in front.                        *)

\* PolicyEngine.apply_policy: the noise functions the profile switches on, in
\* the order of the code, each with probability entropy_weight
apply_policy(trust_score, transformed_payload, g) ==
    LET profile == select_profile(trust_score)
        names ==
            (IF profile.apply_token_swap THEN <<"token_swap">> ELSE <<>>)
            \o (IF profile.apply_sentence_shuffle
                THEN <<"sentence_split_shuffle">> ELSE <<>>)
            \o (IF profile.apply_random_injection
                THEN <<"random_token_injection">> ELSE <<>>)
            \o (IF profile.apply_case_noise THEN <<"random_case_noise">> ELSE <<>>)
    IN  RunSteps(names, [n \in Range(names) |-> profile.entropy_weight],
                 transformed_payload, g)

\* EntropyEngine.calculate_level: entropy_budget = 1 - trust_score
calculate_level(trust_score) == RSub(One, trust_score)

\* EntropyEngine.apply: the profile of the trust band, then the degrader
entropy_apply(payload, entropy_level, g) ==
    entropy_transform(payload, RSub(One, entropy_level), g)

\* SemanticEngine.resolve: a re-classification that leaves the payload alone
semantic_resolve(payload) == payload

\* PolicyEngine.determine_resolution: the state of the coherence
\* max(0.0, trust_score - entropy_budget), entropy_budget = 1 - trust_score
determine_resolution(trust_score) ==
    LET coherence == RMax(Zero, RSub(trust_score, RSub(One, trust_score)))
    IN  IF RLt(coherence, R(4, 10)) THEN "collapsed"
        ELSE IF RLt(coherence, R(7, 10)) THEN "degraded"
        ELSE "resolved"

\* the four try blocks of SemanticRouter.route
Stages == {"entropy", "policy", "resolution", "resolve"}

\* SemanticRouter.route, the stages in `raises` raising an exception as they
\* are entered: each handler prints, and sets what the code has it set
route_raising(data_object, g, raises) ==
    CHOOSE res \in UNION
        {{[obj |-> [semantic_payload |->
                        IF "resolve" \in raises THEN <<>>
                        ELSE semantic_resolve(policy.text),
                    context_vector |-> data_object.context_vector,
                    trust_score |-> data_object.trust_score,
                    entropy_level |->
                        IF "entropy" \in raises THEN One
                        ELSE calculate_level(data_object.trust_score),
                    resolution_state |->
                        IF "resolution" \in raises THEN "degraded"
                        ELSE determine_resolution(data_object.trust_score)],
           rng |-> policy.rng] :
              policy \in {IF "policy" \in raises
                          THEN [text |-> entropy.text, rng |-> entropy.rng]
                          ELSE apply_policy(data_object.trust_score, entropy.text,
                                            entropy.rng)}} :
           entropy \in {IF "entropy" \in raises
                        THEN [text |-> <<>>, rng |-> g]
                        ELSE entropy_apply(data_object.semantic_payload,
                                           calculate_level(data_object.trust_score),
                                           g)}} : TRUE

\* SemanticRouter.route when no stage raises
route(data_object, g) == route_raising(data_object, g, {})

\* ResolutionEngine.resolve
resolve(payload, context_vector, trust_score, g) ==
    IF RLe(R(8, 10), trust_score)
    THEN [text |-> payload, rng |-> g, steps |-> <<>>, passes |-> <<>>]
    ELSE degrade_with_context(payload, context_vector, DefaultMaxIterations, g)

\* ResolutionEngine.evaluate_resolution_state
evaluate_resolution_state(trust_score) ==
    IF RLe(R(8, 10), trust_score) THEN "authorized" ELSE "degraded"

\* SemanticEngine.process_payload: route, decay, resolve, enforce usability
process_payload(payload_obj, exposure_count, g) ==
    CHOOSE res \in UNION UNION
        {{{[obj |-> [routed.obj EXCEPT
                        !.semantic_payload =
                            enforce_usability(resolved.text,
                                              routed.obj.semantic_payload,
                                              routed.obj.trust_score),
                        !.resolution_state =
                            evaluate_resolution_state(routed.obj.trust_score)],
            rng |-> resolved.rng,
            reference |-> routed.obj.semantic_payload] :
               resolved \in {resolve(decayed.result.text, routed.obj.context_vector,
                                     routed.obj.trust_score, decayed.result.rng)}} :
            decayed \in {decay_payload(routed.obj.semantic_payload,
                                       routed.obj.context_vector, exposure_count,
                                       routed.rng)}} :
         routed \in {route(payload_obj, g)}} : TRUE

\* the batches tried have up to MaxBatch items
MaxBatch == 2

\* the data objects of a batch
BatchItems ==
    {[semantic_payload |-> text, context_vector |-> ctx, trust_score |-> t] :
        text \in DecayTexts,
        ctx \in {EmptyDict, [k \in {"auth_confidence", "agent_trust"} |-> One]},
        t \in TrustLevels}

\* SemanticEngine.batch_process is entered
BatchProcess ==
    /\ pc = "idle"
    /\ \E n \in 0..MaxBatch, exposure \in 0..1 :
          \E items \in [1..n -> BatchItems] :
             /\ call' = [op |-> "batch_process", payload_objects |-> items,
                         exposure_count |-> exposure, seed |-> rng.tape,
                         rng_in |-> rng, results |-> <<>>]
             /\ pc' = IF n = 0 THEN "called" ELSE "batch"
    /\ UNCHANGED <<prev, evaluator, weights, fused, rng,
                   environment, context, state>>

\* the list comprehension of batch_process takes the next object
ProcessPayload ==
    /\ pc = "batch"
    /\ \E r \in {process_payload(call.payload_objects[Len(call.results) + 1],
                                 call.exposure_count, rng)} :
          /\ call' = [call EXCEPT !.results = Append(@, r.obj)]
          /\ rng' = r.rng
          /\ pc' = IF Len(call.results) + 1 = Len(call.payload_objects)
                   THEN "called" ELSE "batch"
    /\ UNCHANGED <<prev, evaluator, weights, fused,
                   environment, context, state>>

NextBatch == Seed \/ BatchProcess \/ ProcessPayload \/ Return

SpecBatch == InitDegrade /\ [][NextBatch]_vars

\* C6: the result of every item of a finished batch is the result of
\* processing that item alone from the generator state the batch started
\* with, whatever the other items of the batch and their order.
C6_ItemsIndependent ==
    (pc = "called" /\ call.op = "batch_process")
        => \A i \in 1..Len(call.payload_objects) :
              call.results[i] =
                  process_payload(call.payload_objects[i], call.exposure_count,
                                  call.rng_in).obj

-----------------------------------------------------------------------------
(* The router on its own, with stages that fail.                           *)

\* SemanticRouter.route
Route ==
    /\ pc = "idle"
    /\ \E obj \in BatchItems, raises \in SUBSET Stages :
          \E r \in {route_raising(obj, rng, raises)} :
             /\ call' = [op |-> "route", data_object |-> obj, raises |-> raises,
                         seed |-> rng.tape, rng_in |-> rng, output |-> r.obj]
             /\ rng' = r.rng
    /\ pc' = "called"
    /\ UNCHANGED <<prev, evaluator, weights, fused,
                   environment, context, state>>

NextRouter == Seed \/ Route \/ Return

SpecRouter == InitDegrade /\ [][NextRouter]_vars

\* the maximum-entropy fallback: an empty payload, or one whose every token
\* is a placeholder
MaxEntropyPayload(text) ==
    \A w \in Range(Split(text)) : w \in Range(placeholders) \cup {placeholder}

\* C11: when a stage of route raises, the payload route returns is the
\* maximum-entropy fallback (empty or fully placeholder), never the content
\* the payload had before the failing stage.
C11_RouterFailsSafe ==
    (call.op = "route" /\ call.raises # {})
        => MaxEntropyPayload(call.output.semantic_payload)


\* C12: the trust score of SignalFusion.fuse_signals and of
\* TrustScoring.compute_score is the weight-normalised average of the present
\* signals: the sum of value x weight divided by the sum of the weights of the
\* signals that are present, clamped to [0,1]; omitted weights are equal
\* weights. Stated for the calls in which every present signal has a weight
\* and the weights of the present signals do not sum to 0.
C12_WeightedAverage ==
    /\ call.op = "fuse_signals" =>
          LET c == call.context_signals
              e == call.environment_signals
              w == call.weights
              wt == [k \in DOMAIN c \cup DOMAIN e |->
                        IF w.none THEN One ELSE Get(w.map, k, Zero)]
              num == RAdd(RSum([k \in DOMAIN c |-> RMul(normalize(c[k]), wt[k])],
                               DOMAIN c),
                          RSum([k \in DOMAIN e |->
                                   RMul(fused.components[k], wt[k])], DOMAIN e))
              den == RAdd(RSum(wt, DOMAIN c), RSum(wt, DOMAIN e))
          IN  (/\ den # Zero
               /\ w.none \/ (DOMAIN c \cup DOMAIN e) \subseteq DOMAIN w.map)
                  => call.score = normalize(RDiv(num, den))
    /\ call.op = "compute_score" =>
          LET cv == call.context_vector
              D == DOMAIN cv
              ws == call.weights
              wt == [k \in D |-> IF DOMAIN ws = {} THEN One ELSE Get(ws, k, Zero)]
              den == RSum(wt, D)
          IN  (/\ den # Zero
               /\ DOMAIN ws = {} \/ D \subseteq DOMAIN ws)
                  => call.score
                       = normalize(RDiv(RSum([k \in D |-> RMul(cv[k], wt[k])], D),
                                        den))

\* C13: a signal whose name contains "risk" or "threat" is inverted before it
\* is weighted, in the context mapping as in the environment mapping and by
\* every evaluator: the same call with such a signal lowered never returns a
\* lower trust score, so raising the signal never raises the score.
C13_RiskNeverRaisesTrust ==
    /\ call.op = "fuse_signals" =>
          LET c == call.context_signals
              e == call.environment_signals
              w == call.weights
          IN  /\ \A k \in DOMAIN c, v \in SigVals :
                    (IsRiskKey(k) /\ RLt(v, c[k]))
                       => RLe(call.score,
                              fuse_signals([c EXCEPT ![k] = v], e, w).trust_score)
              /\ \A k \in DOMAIN e, v \in SigVals :
                    (IsRiskKey(k) /\ RLt(v, e[k]))
                       => RLe(call.score,
                              fuse_signals(c, [e EXCEPT ![k] = v], w).trust_score)
    /\ call.op = "compute_confidence" =>
          LET cv == call.context_vector
          IN  \A k \in DOMAIN cv, v \in SigVals :
                 (IsRiskKey(k) /\ RLt(v, cv[k]))
                    => RLe(call.score,
                           compute_confidence(call.weights, [cv EXCEPT ![k] = v]))
    /\ call.op = "compute_score" =>
          LET cv == call.context_vector
          IN  \A k \in DOMAIN cv, v \in SigVals :
                 (IsRiskKey(k) /\ RLt(v, cv[k]))
                    => RLe(call.score,
                           compute_score(call.weights, [cv EXCEPT ![k] = v]))

\* ---------------------------------------------------------------------------
\* Collected signals: EnvironmentModel, ContextCollector and their fusion

\* time.time() when a state is stamped, in units of 10^6 seconds
Timestamps == {R(1700, 1)}
\* raw signals handed to the collectors: below, inside and above [0,1]
CollectVals == {R(-1, 2), R(1, 2), R(3, 2)}

\* EnvironmentState(environment_type=...): the dataclass defaults
EnvironmentState(environment_type, timestamp) ==
    [network_risk |-> Zero, host_integrity |-> One, external_threat |-> Zero,
     environment_type |-> environment_type, timestamp |-> timestamp]

\* EnvironmentModel.collect_signals
collect_signals(s, network_risk, host_integrity, external_threat, now) ==
    [s EXCEPT !.network_risk = normalize(network_risk),
              !.host_integrity = normalize(host_integrity),
              !.external_threat = normalize(external_threat),
              !.timestamp = now]

\* ContextVector(): the dataclass defaults
ContextVector(timestamp) ==
    [auth_confidence |-> Zero, agent_trust |-> Zero, environment_trust |-> Zero,
     timestamp |-> timestamp]

AgentKeys == {"auth_confidence", "agent_trust", "environment_trust"}

\* ContextCollector.collect_from_agent
collect_from_agent(cv, agent_signals, now) ==
    [cv EXCEPT !.auth_confidence = normalize(Get(agent_signals, "auth_confidence", Zero)),
               !.agent_trust = normalize(Get(agent_signals, "agent_trust", Zero)),
               !.environment_trust = normalize(Get(agent_signals, "environment_trust", Zero)),
               !.timestamp = now]

\* EnvironmentState.as_dict / ContextVector.as_dict: the float fields
as_dict(s) ==
    [k \in DOMAIN s \ {"environment_type"} |-> s[k]]

\* A SignalFusion or TrustScoring next to a fresh EnvironmentModel and a fresh
\* ContextCollector.
InitCollect ==
    /\ pc = "idle"
    /\ call = NoCall
    /\ prev = NoCall
    /\ evaluator \in {"SignalFusion", "TrustScoring"}
    /\ weights \in IF evaluator = "SignalFusion" THEN {EmptyDict} ELSE WeightMaps
    /\ fused = NoFused
    /\ rng = NoRng
    /\ \E now \in Timestamps : environment = EnvironmentState("unknown", now)
    /\ \E now \in Timestamps : context = ContextVector(now)
    /\ state = NoObject

CollectSignals ==
    /\ pc = "idle"
    /\ \E n \in CollectVals, h \in CollectVals, t \in CollectVals,
          now \in Timestamps :
          environment' = collect_signals(environment, n, h, t, now)
    /\ UNCHANGED <<pc, call, prev, evaluator, weights, fused, rng, context, state>>

CollectFromAgent ==
    /\ pc = "idle"
    /\ \E agent_signals \in Dicts(AgentKeys, CollectVals), now \in Timestamps :
          context' = collect_from_agent(context, agent_signals, now)
    /\ UNCHANGED <<pc, call, prev, evaluator, weights, fused, rng, environment,
                   state>>

\* fuse_signals(context.as_dict(), state.as_dict(), weights)
FuseCollected ==
    /\ pc = "idle"
    /\ evaluator = "SignalFusion"
    /\ \E w \in OptWeights :
          \E f \in {fuse_signals(as_dict(context), as_dict(environment), w)} :
             /\ fused' = f
             /\ call' = [op |-> "fuse_signals", context_signals |-> as_dict(context),
                         environment_signals |-> as_dict(environment),
                         weights |-> w, score |-> f.trust_score]
    /\ pc' = "called"
    /\ UNCHANGED <<prev, evaluator, weights, rng, environment, context, state>>

\* compute_score(context.as_dict())
ScoreCollected ==
    /\ pc = "idle"
    /\ evaluator = "TrustScoring"
    /\ call' = [op |-> "compute_score", context_vector |-> as_dict(context),
                weights |-> weights,
                score |-> compute_score(weights, as_dict(context))]
    /\ pc' = "called"
    /\ UNCHANGED <<prev, evaluator, weights, fused, rng, environment, context,
                   state>>

\* the signals are collected, then scored once
NextCollect ==
    CollectSignals \/ CollectFromAgent \/ FuseCollected \/ ScoreCollected

SpecCollect == InitCollect /\ [][NextCollect]_vars

\* C14: a missing signal counts as 0.0 trust: an EnvironmentModel for which no
\* signals were collected never yields a higher fused trust score than the
\* same fusion with the environment signals that were collected.
C14_UncollectedNotHigher ==
    call.op = "fuse_signals" =>
        RLe(fuse_signals(call.context_signals,
                         as_dict(EnvironmentState("unknown",
                                     call.environment_signals["timestamp"])),
                         call.weights).trust_score,
            call.score)

\* the signal names of the interface
RecognizedKeys == AgentKeys \cup {"network_risk", "host_integrity", "external_threat"}
Recognized(signals) == [k \in DOMAIN signals \cap RecognizedKeys |-> signals[k]]

\* C15: an unrecognized key in a signal mapping, such as the timestamp entry
\* of ContextVector.as_dict and EnvironmentState.as_dict, does not change the
\* score: the score is the one of the recognized signals alone.
C15_UnrecognizedIgnored ==
    /\ call.op = "fuse_signals" =>
          call.score = fuse_signals(Recognized(call.context_signals),
                                    Recognized(call.environment_signals),
                                    call.weights).trust_score
    /\ call.op = "compute_score" =>
          call.score = compute_score(call.weights,
                                     Recognized(call.context_vector))

\* ---------------------------------------------------------------------------
\* Trust decay with exposure: TrustDecay and TrustEngine

\* TrustDecay.decay_with_exposure: decay_trust applied exposure_count times
decay_with_exposure(decay, trust_score, exposure_count) ==
    LET decay_trust(t) == RMax(decay.min_trust,
                               RMul(t, RSub(One, decay.decay_rate)))
        RECURSIVE loop(_, _)
        loop(decayed, n) ==
            IF n = 0 THEN decayed ELSE loop(decay_trust(decayed), n - 1)
    IN  loop(trust_score, exposure_count)

DecayRates == {R(0, 1), R(1, 2), R(1, 1)}
MinTrusts == {R(0, 1), R(1, 4), R(1, 1)}
DecayTrusts == {R(0, 1), R(1, 8), R(1, 2), R(1, 1)}

\* TrustEngine(weights, decay_rate, min_trust): a ConfidenceModel and a
\* TrustDecay whose rate and floor passed the range checks
InitTrustDecay ==
    /\ pc = "idle"
    /\ call = NoCall
    /\ prev = NoCall
    /\ \E r \in DecayRates, m \in MinTrusts :
          evaluator = [class |-> "TrustEngine", decay_rate |-> r, min_trust |-> m]
    /\ weights \in WeightMaps
    /\ fused = NoFused
    /\ rng = NoRng
    /\ environment = NoObject
    /\ context = NoObject
    /\ state = NoObject

\* trust_decay.decay_with_exposure(trust_score, exposure_count)
DecayWithExposure ==
    /\ pc = "idle"
    /\ \E t \in DecayTrusts, n \in 0..MaxExposure :
          call' = [op |-> "decay_with_exposure", trust_score |-> t,
                   exposure_count |-> n,
                   result |-> decay_with_exposure(evaluator, t, n)]
    /\ pc' = "called"
    /\ UNCHANGED <<prev, evaluator, weights, fused, rng, environment, context,
                   state>>

\* TrustEngine.evaluate_trust_with_exposure
EvaluateTrustWithExposure ==
    /\ pc = "idle"
    /\ \E cv \in Signals(SigKeys), n \in 0..MaxExposure :
          \E initial_confidence \in {compute_confidence(weights, cv)} :
             /\ weights' = confidence_weights(weights, cv)
             /\ call' = [op |-> "evaluate_trust_with_exposure",
                         context_vector |-> cv, trust_score |-> initial_confidence,
                         exposure_count |-> n,
                         result |-> decay_with_exposure(evaluator,
                                                        initial_confidence, n)]
    /\ pc' = "called"
    /\ UNCHANGED <<prev, evaluator, fused, rng, environment, context, state>>

NextTrustDecay == DecayWithExposure \/ EvaluateTrustWithExposure \/ Return

SpecTrustDecay == InitTrustDecay /\ [][NextTrustDecay]_vars

RECURSIVE RPow(_, _)
RPow(x, n) == IF n = 0 THEN One ELSE RMul(x, RPow(x, n - 1))

\* C16: decay_with_exposure returns
\* max(min_trust, trust x (1 - decay_rate)^exposure_count) for every trust,
\* rate and floor in [0,1] and every exposure count, 0 included, also when the
\* starting trust is below min_trust.
C16_ExposureDecayClosedForm ==
    call.op \in {"decay_with_exposure", "evaluate_trust_with_exposure"} =>
        call.result = RMax(evaluator.min_trust,
                           RMul(call.trust_score,
                                RPow(RSub(One, evaluator.decay_rate),
                                     call.exposure_count)))

-----------------------------------------------------------------------------
(* AlethiaRuntime.process_data and the resolution state.                   *)

\* TrustVector.compute_confidence, which AlethiaRuntime calls and TrustVector
\* does not define: the equal-weight average of the present signals, risk and
\* threat signals inverted, clamped to [0,1]
trust_layer_compute_confidence(context_vector) ==
    LET D == DOMAIN context_vector
        v == [k \in D |-> IF IsRiskKey(k)
                          THEN RSub(One, normalize(context_vector[k]))
                          ELSE context_vector[k]]
    IN  IF D = {} THEN Zero
        ELSE normalize(RDiv(RSum(v, D), R(Cardinality(D), 1)))

\* AlethiaRuntime.process_data
process_data(data_object, g) ==
    CHOOSE res \in UNION
        {{[obj |-> [semantic_payload |-> semantic_resolve(transformed.text),
                    context_vector |-> data_object.context_vector,
                    trust_score |-> auth_confidence,
                    entropy_level |-> RSub(One, auth_confidence),
                    resolution_state |->
                        IF RLe(R(8, 10), auth_confidence)
                        THEN "authorized" ELSE "degraded"],
           profile |-> get_profile(auth_confidence).name,
           rng |-> transformed.rng] :
              transformed \in {entropy_apply(data_object.semantic_payload,
                                             RSub(One, auth_confidence), g)}} :
           auth_confidence \in
               {trust_layer_compute_confidence(data_object.context_vector)}} : TRUE

\* signal values of the runtime scenarios
RuntimeVals == {R(1, 10), R(4, 10), R(5, 10), R(9, 10), R(1, 1)}
RuntimeContexts == Dicts({"auth_confidence", "agent_trust"}, RuntimeVals)

ProcessData ==
    /\ pc = "idle"
    /\ \E text \in DecayTexts, ctx \in RuntimeContexts :
          \E r \in {process_data([semantic_payload |-> text,
                                  context_vector |-> ctx], rng)} :
             /\ call' = [op |-> "process_data", semantic_payload |-> text,
                         context_vector |-> ctx, profile |-> r.profile,
                         output |-> r.obj]
             /\ rng' = r.rng
    /\ pc' = "called"
    /\ UNCHANGED <<prev, evaluator, weights, fused, environment, context, state>>

\* ResolutionEngine.evaluate_resolution_state
EvaluateResolutionState ==
    /\ pc = "idle"
    /\ \E t \in Scores :
          call' = [op |-> "evaluate_resolution_state",
                   output |-> [trust_score |-> t,
                               resolution_state |-> evaluate_resolution_state(t)]]
    /\ pc' = "called"
    /\ UNCHANGED <<prev, evaluator, weights, fused, rng, environment, context,
                   state>>

NextRuntime == Seed \/ ProcessData \/ EvaluateResolutionState \/ Return

SpecRuntime == InitDegrade /\ [][NextRuntime]_vars

RuntimeOps == {"process_data", "evaluate_resolution_state"}

\* the state the coherence max(0, trust - (1 - trust)) stands for
CoherenceState(trust_score) ==
    LET coherence == RMax(Zero, RSub(trust_score, RSub(One, trust_score)))
    IN  IF RLt(coherence, R(4, 10)) THEN "collapsed"
        ELSE IF RLt(coherence, R(7, 10)) THEN "degraded"
        ELSE "resolved"

\* C17: the resolution state reported for a trust score is the state of the
\* coherence max(0, trust - entropy_budget) with entropy_budget = 1 - trust:
\* collapsed below 0.4, degraded below 0.7, resolved from 0.7 on; trust 1.0
\* gives resolved.
C17_StateFromCoherence ==
    (call.op \in RuntimeOps /\ InUnit(call.output.trust_score))
        => call.output.resolution_state = CoherenceState(call.output.trust_score)

\* Scenario B
ScenarioB == [k \in {"auth_confidence", "agent_trust"} |-> R(5, 10)]

-----------------------------------------------------------------------------
(* LinguisticEntropy.apply_all with probabilities the caller chooses.      *)

\* LinguisticEntropy(synonym_prob, polysemy_prob, referential_prob).apply_all
ApplyAll ==
    /\ pc = "idle"
    /\ \E text \in Texts, sp \in Probs, pp \in Probs, rp \in Probs :
          \E r \in {apply_all(text, sp, pp, rp, rng)} :
             /\ call' = [op |-> "apply_all", payload |-> text,
                         params |-> <<sp, pp, rp>>, seed |-> rng.tape,
                         rng_in |-> rng, output |-> r.text, steps |-> r.steps]
             /\ rng' = r.rng
    /\ pc' = "called"
    /\ UNCHANGED <<prev, evaluator, weights, fused, environment, context, state>>

NextApplyAll == Seed \/ ApplyAll \/ Return

SpecApplyAll == InitDegrade /\ [][NextApplyAll]_vars

\* C19: with the referential probability 1 and the two other probabilities 0,
\* apply_all replaces exactly the tokens that start with an upper-case letter
\* by the placeholder and leaves every other token, the number of tokens and
\* their order as they were.
C19_OnlyCapitalizedReplaced ==
    (call.op = "apply_all" /\ call.params = <<Zero, Zero, One>>)
        => LET tin == Split(call.payload)
               tout == Split(call.output)
           IN  /\ Len(tout) = Len(tin)
               /\ \A i \in 1..Len(tin) :
                     tout[i] = IF IsUpper(tin[i][1]) THEN placeholder ELSE tin[i]

\* a payload with a capitalized token between two others went through
C19_Witness ==
    /\ call.op = "apply_all"
    /\ call.params = <<Zero, Zero, One>>
    /\ call.payload = Join(<<WordCar, WordBob, WordRan>>, Space)
    /\ call.output = Join(<<WordCar, placeholder, WordRan>>, Space)

-----------------------------------------------------------------------------
(* The state record of a payload: SemanticState, with the same resolution  *)
(* states and the same methods as SemanticExecutionState.                  *)

\* SemanticState.VALID_STATES
VALID_STATES == {"degraded", "authorized", "unknown"}

\* SemanticState(data_id, initial_payload, trust_score=...)
SemanticState(initial_payload, trust_score) ==
    [class |-> "SemanticState", initial_payload |-> initial_payload,
     current_payload |-> initial_payload, trust_score |-> trust_score,
     decay_factor |-> Zero, exposure_count |-> 0, resolution_state |-> "unknown"]

\* the names callers hand to set_resolution_state
StateNames == VALID_STATES \cup {"latent", "resolved", "collapsed"}
\* decay_factor arguments: None, or a float
NoDecayFactor == [none |-> TRUE]
DecayFactors == {NoDecayFactor} \cup
                {[none |-> FALSE, value |-> v] : v \in {R(0, 1), R(1, 2), R(3, 2)}}

InitState ==
    /\ pc = "idle"
    /\ call = NoCall
    /\ prev = NoCall
    /\ evaluator = "none"
    /\ weights = EmptyDict
    /\ fused = NoFused
    /\ \E t \in Tapes : rng = Seeded(t)
    /\ environment = NoObject
    /\ context = NoObject
    /\ \E text \in DecayTexts, t \in TrustLevels : state = SemanticState(text, t)

\* SemanticState.update_payload: the payload is stored before the decay
\* factor is checked, the exposure is counted after
UpdatePayload ==
    /\ pc = "idle"
    /\ state.exposure_count < MaxExposure
    /\ \E new_payload \in DecayTexts, decay_factor \in DecayFactors :
          LET raised == ~decay_factor.none /\ ~InUnit(decay_factor.value)
          IN  /\ state' = IF raised
                          THEN [state EXCEPT !.current_payload = new_payload]
                          ELSE [state EXCEPT
                                   !.current_payload = new_payload,
                                   !.decay_factor = IF decay_factor.none THEN @
                                                    ELSE decay_factor.value,
                                   !.exposure_count = @ + 1]
              /\ call' = [op |-> "update_payload", new_payload |-> new_payload,
                          decay_factor |-> decay_factor, raised |-> raised]
    /\ pc' = "called"
    /\ UNCHANGED <<prev, evaluator, weights, fused, rng, environment, context>>

\* SemanticState.set_resolution_state
SetResolutionState ==
    /\ pc = "idle"
    /\ \E name \in StateNames :
          /\ state' = IF name \in VALID_STATES
                      THEN [state EXCEPT !.resolution_state = name] ELSE state
          /\ call' = [op |-> "set_resolution_state", state |-> name,
                      raised |-> name \notin VALID_STATES, before |-> state]
    /\ pc' = "called"
    /\ UNCHANGED <<prev, evaluator, weights, fused, rng, environment, context>>

\* SemanticEncoder.encode_payload without entities; apply_entropy, which
\* LinguisticEntropy does not define, is taken as the EntropyEngine.apply of
\* the specification
EncodePayload ==
    /\ pc = "idle"
    /\ \E entropy_level \in TrustLevels :
          \E r \in {entropy_apply(state.initial_payload, entropy_level, rng)} :
             /\ state' = [state EXCEPT !.current_payload = r.text,
                                       !.decay_factor = entropy_level,
                                       !.resolution_state = "degraded"]
             /\ call' = [op |-> "encode_payload", entropy_level |-> entropy_level,
                         output |-> r.text, raised |-> FALSE]
             /\ rng' = r.rng
    /\ pc' = "called"
    /\ UNCHANGED <<prev, evaluator, weights, fused, environment, context>>

\* SemanticState.reset_state
ResetState ==
    /\ pc = "idle"
    /\ state' = [state EXCEPT !.current_payload = state.initial_payload,
                              !.decay_factor = Zero,
                              !.resolution_state = "unknown",
                              !.exposure_count = 0]
    /\ call' = [op |-> "reset_state", raised |-> FALSE]
    /\ pc' = "called"
    /\ UNCHANGED <<prev, evaluator, weights, fused, rng, environment, context>>

NextState ==
    UpdatePayload \/ SetResolutionState \/ EncodePayload \/ ResetState \/ ReturnKeep

SpecState == InitState /\ [][NextState]_vars

\* the resolution states of the specification
ResolutionStates == {"latent", "resolved", "degraded", "collapsed"}

\* C20: the resolution state of a state record is always one of latent,
\* resolved, degraded and collapsed, and a record no method was called on yet
\* is latent.
C20_ResolutionStateInEnum ==
    /\ state.resolution_state \in ResolutionStates
    /\ (call = NoCall /\ prev = NoCall) => state.resolution_state = "latent"

-----------------------------------------------------------------------------
(* Operations that store a trust value or a state name: TrustVector,       *)
(* SemanticState and SemanticExecutionState.                               *)

\* decay calls made on one TrustVector in a run
MaxDecays == 2

\* TrustVector(signals), the signals having passed the range check;
\* `decays` counts the decay calls made so far
TrustVector(signals) ==
    [class |-> "TrustVector", signals |-> signals, decays |-> 0]

\* SemanticExecutionState(data_id, initial_payload, context_vector)
SemanticExecutionState(initial_payload, context_vector) ==
    [class |-> "SemanticExecutionState", original_payload |-> initial_payload,
     current_payload |-> initial_payload, context_vector |-> context_vector,
     trust_score |-> Get(context_vector, "auth_confidence", Zero),
     agent_trust |-> Get(context_vector, "agent_trust", Zero),
     resolution_state |-> "unknown", exposure_count |-> 0]

VectorKeys == {"auth_confidence", "agent_trust"}
\* decay_rate and min_trust arguments, in and out of [0,1]
DecayArgs == {R(-1, 1), R(0, 1), R(1, 2), R(2, 1)}

InitObjects ==
    /\ pc = "idle"
    /\ call = NoCall
    /\ prev = NoCall
    /\ evaluator = "none"
    /\ weights = EmptyDict
    /\ fused = NoFused
    /\ rng = NoRng
    /\ environment = NoObject
    /\ context = NoObject
    /\ state \in {SemanticState(Join(<<WordBob>>, Space), t) : t \in TrustLevels}
            \cup {SemanticExecutionState(Join(<<WordBob>>, Space), c) :
                     c \in Dicts(VectorKeys, TrustLevels)}
            \cup {TrustVector(sg) : sg \in Dicts(VectorKeys, TrustLevels)}

\* TrustVector.update_signal, also reached through TrustVector.__setitem__
UpdateSignal ==
    /\ pc = "idle"
    /\ state.class = "TrustVector"
    /\ \E key \in VectorKeys, value \in SigVals :
          LET raised == ~InUnit(value)
          IN  /\ state' = IF raised THEN state
                          ELSE [state EXCEPT !.signals =
                                   [k \in DOMAIN @ \cup {key} |->
                                       IF k = key THEN value ELSE @[k]]]
              /\ call' = [op |-> "update_signal", key |-> key, value |-> value,
                          raised |-> raised, before |-> state]
    /\ pc' = "called"
    /\ UNCHANGED <<prev, evaluator, weights, fused, rng, environment, context>>

\* TrustVector.decay
VectorDecay ==
    /\ pc = "idle"
    /\ state.class = "TrustVector"
    /\ state.decays < MaxDecays
    /\ \E decay_rate \in DecayArgs, min_trust \in DecayArgs :
          /\ state' = [state EXCEPT
                          !.signals = [k \in DOMAIN @ |->
                                          RMax(min_trust,
                                               RMul(@[k], RSub(One, decay_rate)))],
                          !.decays = @ + 1]
          /\ call' = [op |-> "decay", decay_rate |-> decay_rate,
                      min_trust |-> min_trust, raised |-> FALSE, before |-> state]
    /\ pc' = "called"
    /\ UNCHANGED <<prev, evaluator, weights, fused, rng, environment, context>>

\* TrustVector.normalize
VectorNormalize ==
    /\ pc = "idle"
    /\ state.class = "TrustVector"
    /\ state' = [state EXCEPT !.signals = [k \in DOMAIN @ |-> normalize(@[k])]]
    /\ call' = [op |-> "normalize", raised |-> FALSE, before |-> state]
    /\ pc' = "called"
    /\ UNCHANGED <<prev, evaluator, weights, fused, rng, environment, context>>

\* SemanticState.update_trust
UpdateTrust ==
    /\ pc = "idle"
    /\ state.class = "SemanticState"
    /\ \E trust_score \in SigVals :
          LET raised == ~InUnit(trust_score)
          IN  /\ state' = IF raised THEN state
                          ELSE [state EXCEPT !.trust_score = trust_score]
              /\ call' = [op |-> "update_trust", value |-> trust_score,
                          raised |-> raised, before |-> state]
    /\ pc' = "called"
    /\ UNCHANGED <<prev, evaluator, weights, fused, rng, environment, context>>

\* SemanticExecutionState.update_trust_score
UpdateTrustScore ==
    /\ pc = "idle"
    /\ state.class = "SemanticExecutionState"
    /\ \E new_trust_score \in SigVals,
          new_agent_trust \in {[none |-> TRUE]}
                                \cup {[none |-> FALSE, value |-> v] : v \in SigVals} :
          LET ts == normalize(new_trust_score)
              at == IF new_agent_trust.none THEN state.agent_trust
                    ELSE normalize(new_agent_trust.value)
          IN  /\ state' = [state EXCEPT
                              !.trust_score = ts,
                              !.agent_trust = at,
                              !.context_vector =
                                  [k \in DOMAIN @ \cup VectorKeys |->
                                      IF k = "auth_confidence" THEN ts
                                      ELSE IF k = "agent_trust" THEN at
                                      ELSE @[k]]]
              /\ call' = [op |-> "update_trust_score", value |-> new_trust_score,
                          raised |-> FALSE, before |-> state]
    /\ pc' = "called"
    /\ UNCHANGED <<prev, evaluator, weights, fused, rng, environment, context>>

\* set_resolution_state is the same code in the two state classes
SetStateName == state.class # "TrustVector" /\ SetResolutionState

NextObjects ==
    \/ UpdateSignal
    \/ VectorDecay
    \/ VectorNormalize
    \/ UpdateTrust
    \/ UpdateTrustScore
    \/ SetStateName
    \/ Return

SpecObjects == InitObjects /\ [][NextObjects]_vars

StoreOps == {"update_signal", "update_trust", "update_trust_score"}

\* C21: a trust value outside [0,1] handed to TrustVector.update_signal,
\* SemanticState.update_trust or SemanticExecutionState.update_trust_score, and
\* an unknown name handed to set_resolution_state, is reported to the caller
\* as an error and leaves the object as it was.
C21_OutOfRangeRejected ==
    /\ (call.op \in StoreOps /\ ~InUnit(call.value))
          => (call.raised /\ state = call.before)
    /\ (call.op = "set_resolution_state" /\ call.state \notin VALID_STATES)
          => (call.raised /\ state = call.before)

\* C30: every signal stored in a TrustVector is within [0,1] after
\* construction and after every update_signal, decay and normalize call that
\* returned, whatever the decay_rate and min_trust arguments were.
C30_StoredSignalsInUnit ==
    state.class = "TrustVector"
        => \A k \in DOMAIN state.signals : InUnit(state.signals[k])

\* C22: in every result of AlethiaRuntime.process_data and of
\* SemanticRouter.route, whether or not a stage failed, the entropy level is
\* 1 - trust_score of the same result and both lie in [0,1].
C22_EntropyIsOneMinusTrust ==
    call.op \in {"route", "process_data"} =>
        /\ call.output.entropy_level = RSub(One, call.output.trust_score)
        /\ InUnit(call.output.entropy_level)
        /\ InUnit(call.output.trust_score)


-----------------------------------------------------------------------------
(* Trust evaluation and the state of the evaluating instance.              *)

\* C23: trust evaluation keeps no state between calls: the evaluation that
\* has just returned on a ConfidenceModel leaves the score the same instance
\* returns unchanged for every context vector, whatever its keys.
C23_NoStateBetweenCalls ==
    call.op = "compute_confidence" =>
        \A cv \in Signals(SigKeys) :
            compute_confidence(weights, cv) = compute_confidence(call.weights, cv)

-----------------------------------------------------------------------------
(* The token swap pass.                                                    *)

\* the permutations of 1..n
Perms(n) == {f \in [1..n -> 1..n] : \A i, j \in 1..n : f[i] = f[j] => i = j}

\* the ways to place the tokens of the input in the output: token i of the
\* input is token f[i] of the output
Placements(input, output) ==
    IF Len(input) # Len(output) THEN {}
    ELSE {f \in Perms(Len(input)) : \A i \in 1..Len(input) : output[f[i]] = input[i]}

\* token_swap as a call of its own
SwapCall == call.op = "token_swap"

\* C24 as stated: the output of token_swap holds exactly the tokens of the
\* input, every token at most one position from where it was, which is what a
\* pass over non-overlapping pairs (each token in at most one swap) produces.
C24_NonOverlappingSwaps ==
    SwapCall =>
        \E f \in Placements(Split(call.payload), Split(call.output)) :
            \A i \in DOMAIN f : f[i] - i \in {-1, 0, 1}

\* C24 amended: the pass visits every adjacent pair (i, i+1) from left to right,
\* overlapping ones included, so a token swapped to the right can be swapped
\* again and be carried any number of positions to the right; no token moves
\* more than one position to the left, and the output holds exactly the tokens
\* of the input.
C24_SwapPassCarriesRight ==
    SwapCall =>
        \E f \in Placements(Split(call.payload), Split(call.output)) :
            \A i \in DOMAIN f : f[i] >= i - 1

\* a token_swap that carried the first of three different tokens to the end
C24_Witness ==
    /\ SwapCall
    /\ Split(call.payload) = <<WordCar, WordBob, WordRan>>
    /\ Split(call.output) = <<WordBob, WordRan, WordCar>>

-----------------------------------------------------------------------------
(* The sentence shuffle.                                                   *)

\* the sentences of a text, each with the terminal punctuation it has in the
\* text: every piece that a "." ends keeps its ".", the rest after the last
\* "." has none
PunctuatedSentences(text) ==
    LET parts == SplitOn(text, ".")
        n == Len(parts)
        RECURSIVE Collect(_)
        Collect(i) ==
            IF i > n THEN <<>>
            ELSE (IF Strip(parts[i]) = <<>> THEN <<>>
                  ELSE <<Strip(parts[i]) \o (IF i < n THEN <<".">> ELSE <<>>)>>)
                 \o Collect(i + 1)
    IN  Collect(1)

\* the one draw of the call fell below the probability
ShuffleTriggered(c) ==
    /\ ~RLe(c.params[1], Zero)
    /\ RLt(Draw(c.rng_in), c.params[1])

\* C25: the output of the sentence shuffle consists of exactly the sentences
\* of the input, each with its own terminal punctuation, and when the shuffle
\* is not triggered the payload is returned unchanged.
C25_SentencesKept ==
    call.op = "sentence_split_shuffle" =>
        /\ Placements(PunctuatedSentences(call.payload),
                      PunctuatedSentences(call.output)) # {}
        /\ ~ShuffleTriggered(call) => call.output = call.payload

-----------------------------------------------------------------------------
(* The usability guard on longer references.                               *)

\* the longest reference payload and the longest degraded payload, in tokens
MaxRefTokens == 4
MaxGuardTokens == 2

\* reference payloads and degraded payloads over four different words
GuardReferences ==
    {Join(ws, Space) : ws \in UNION {[1..n -> Words] : n \in 0..MaxRefTokens}}
GuardPayloads ==
    {Join(ws, Space) : ws \in UNION {[1..n -> Words] : n \in 0..MaxGuardTokens}}

\* UsabilityGuard.enforce_usability, of a payload that holds tokens of the
\* reference at other positions than the reference has them
EnforceUsabilityWide ==
    /\ pc = "idle"
    /\ \E payload \in GuardPayloads, reference \in GuardReferences,
          t \in GuardTrust :
          call' = [op |-> "enforce_usability", payload |-> payload,
                   reference_payload |-> reference, trust_score |-> t,
                   usability |-> assess_usability(payload, reference),
                   output |-> enforce_usability(payload, reference, t)]
    /\ pc' = "called"
    /\ UNCHANGED <<prev, evaluator, weights, fused, rng,
                   environment, context, state>>

NextGuardWide == EnforceUsabilityWide \/ Return

SpecGuardWide == InitGuard /\ [][NextGuardWide]_vars

\* C26: usability enforcement never lowers usability: the usability of the
\* payload that enforce_usability returns, assessed against the same reference,
\* is at least the usability of the payload it was given.
C26_EnforcementNeverLowers ==
    call.op = "enforce_usability" =>
        RLe(call.usability,
            assess_usability(call.output, call.reference_payload))

-----------------------------------------------------------------------------
(* The reference payload of the usability guard in process_payload.        *)

\* the first object of the batch has been processed
FirstProcessed ==
    /\ call.op = "batch_process"
    /\ Len(call.results) >= 1

\* C27: the reference payload that SemanticEngine.process_payload hands to
\* the usability guard is the payload as the caller submitted it, not one the
\* router, the decay or the resolution has altered.
C27_ReferenceIsSubmittedPayload ==
    FirstProcessed =>
        process_payload(call.payload_objects[1], call.exposure_count,
                        call.rng_in).reference
            = call.payload_objects[1].semantic_payload

-----------------------------------------------------------------------------
(* ReferenceShuffler, with the generator of the instance.                  *)

\* ReferenceShuffler.shuffle_entities
shuffle_entities(text_tokens, entities, g) ==
    LET n == Len(text_tokens)
        RECURSIVE Indices(_)
        Indices(i) ==
            IF i > n THEN <<>>
            ELSE (IF text_tokens[i] \in entities THEN <<i>> ELSE <<>>)
                 \o Indices(i + 1)
        entity_indices == Indices(1)
    IN  IF Len(entity_indices) <= 1 THEN [list |-> text_tokens, rng |-> g]
        ELSE CHOOSE res \in
                {[list |-> [i \in 1..n |->
                              IF \E k \in DOMAIN entity_indices : entity_indices[k] = i
                              THEN text_tokens[shuffled.list[
                                       CHOOSE k \in DOMAIN entity_indices :
                                           entity_indices[k] = i]]
                              ELSE text_tokens[i]],
                  rng |-> shuffled.rng] :
                    shuffled \in {Shuffle(entity_indices, g)}} : TRUE

\* ReferenceShuffler.apply_entropy: max(1, int(entropy_level * n / 2)) swaps of
\* two sampled positions; random.sample raises ValueError when n < 2
shuffler_apply_entropy(text_tokens, entropy_level, g) ==
    LET n == Len(text_tokens)
        scaled == RInt(RDiv(RMul(entropy_level, R(n, 1)), R(2, 1)))
        num_swaps == IF scaled > 1 THEN scaled ELSE 1
        RECURSIVE Swaps(_, _, _)
        Swaps(perturbed_tokens, left, h) ==
            IF left = 0 THEN [list |-> perturbed_tokens, rng |-> h, raised |-> FALSE]
            ELSE IF n < 2 THEN [list |-> perturbed_tokens, rng |-> h, raised |-> TRUE]
            ELSE CHOOSE res \in
                    {Swaps(Swap(perturbed_tokens, ij.list[1], ij.list[2]),
                           left - 1, ij.rng) :
                        ij \in {Sample([k \in 1..n |-> k], 2, h)}} : TRUE
    IN  Swaps(text_tokens, num_swaps, g)

\* ReferenceShuffler.shuffle_payload
shuffle_payload(payload, entities, entropy_level, g) ==
    CHOOSE res \in UNION
        {{[text |-> Join(perturbed.list, Space), rng |-> perturbed.rng,
           raised |-> perturbed.raised] :
              perturbed \in {shuffler_apply_entropy(tokens.list, entropy_level,
                                                    tokens.rng)}} :
           tokens \in {IF entities # {} THEN shuffle_entities(Split(payload), entities, g)
                       ELSE [list |-> Split(payload), rng |-> g]}} : TRUE

\* the entity lists tried: none, and two of the words
EntityLists == {{}, {WordCar, WordBob}}

\* a call of ReferenceShuffler.shuffle_payload; the generator of the instance
\* goes on from where the call left it
ShufflePayload ==
    /\ pc = "idle"
    /\ \E payload \in Texts, entities \in EntityLists, level \in TrustLevels :
          \E r \in {shuffle_payload(payload, entities, level, rng)} :
              /\ call' = [op |-> "shuffle_payload", payload |-> payload,
                          entities |-> entities, entropy_level |-> level,
                          output |-> r.text, raised |-> r.raised]
              /\ rng' = r.rng
    /\ pc' = "called"
    /\ UNCHANGED <<prev, evaluator, weights, fused,
                   environment, context, state>>

NextShuffler == ShufflePayload \/ Return

SpecShuffler == InitDegrade /\ [][NextShuffler]_vars

\* C28: shuffle_payload with entropy_level 0 and no entities completes without
\* raising and returns the tokens of the payload in their original order, for
\* the empty payload and the single-token payload as well.
C28_ZeroEntropyIsIdentity ==
    (/\ call.op = "shuffle_payload"
     /\ call.entropy_level = Zero
     /\ call.entities = {}) =>
        /\ ~call.raised
        /\ Split(call.output) = Split(call.payload)

-----------------------------------------------------------------------------
(* TrustEngine.evaluate_trust next to evaluate_trust_with_exposure.        *)

\* a trust evaluation that returns the confidence as computed
evaluate_trust_undecayed(engine, ws, context_vector) ==
    compute_confidence(ws, context_vector)

\* TrustEngine.evaluate_trust on an engine whose confidence model holds the
\* weights ws: the confidence, then trust_decay.decay_trust
evaluate_trust(engine, ws, context_vector) ==
    LET confidence == compute_confidence(ws, context_vector)
        decayed == RMul(confidence, RSub(One, engine.decay_rate))
    IN  RMax(engine.min_trust, decayed)

\* TrustEngine.evaluate_trust_with_exposure, likewise
evaluate_trust_with_exposure(engine, ws, context_vector, exposure_count) ==
    decay_with_exposure(engine, compute_confidence(ws, context_vector),
                        exposure_count)

\* a call of TrustEngine.evaluate_trust; the confidence model keeps the
\* weights its compute_confidence has set
EvaluateTrust ==
    /\ pc = "idle"
    /\ \E cv \in Signals(SigKeys) :
          \E confidence \in {compute_confidence(weights, cv)} :
             /\ weights' = confidence_weights(weights, cv)
             /\ call' = [op |-> "evaluate_trust", context_vector |-> cv,
                         trust_score |-> confidence, exposure_count |-> 1,
                         result |-> evaluate_trust(evaluator, weights, cv)]
    /\ pc' = "called"
    /\ UNCHANGED <<prev, evaluator, fused, rng, environment, context, state>>

NextTrustEngine == EvaluateTrust \/ EvaluateTrustWithExposure \/ Return

SpecTrustEngine == InitTrustDecay /\ [][NextTrustEngine]_vars

====
